---- MODULE Spec2Model ----
(* Model of the feature registry, the feature modules that register        *)
(* themselves on import, the feature manager commands, the provider        *)
(* locator, the three providers, the AI integration facade and the bulk    *)
(* generator of the aics toolkit.                                          *)
EXTENDS Integers, Sequences, FiniteSets, TLC

VARIABLES
    features,     \* FeatureRegistry._features, an insertion-ordered dict
    lastRegistered, \* history: the name the last operation registered, or None
    insertOrder,  \* history: registered names by the registration that inserted the key
    echo,         \* what the last operation printed ("none": nothing)
    env,          \* os.environ: the API key variables that are set
    dotenv,       \* the API key settings the configuration file provides
    sysModules,   \* sys.modules: the feature modules imported successfully
    loadResult,   \* per feature module, how its last requested import ended
    ragOnDisk,    \* os.path.exists(RAG_STORAGE_PATH)
    instances,    \* the provider instances constructed so far, by identity
    facades,      \* the AIIntegration instances constructed so far
    lastCall,     \* the last generate_code call and the request it sent
    disk,         \* the files written by FileManager.write_file: path -> content
    ret           \* the last provider or facade operation: its arguments and
                  \* what it returned or raised

vars == <<features, lastRegistered, insertOrder, echo, env, dotenv,
          sysModules, loadResult, ragOnDisk, instances, facades, lastCall,
          disk, ret>>

registryVars == <<features, lastRegistered, insertOrder, echo>>

providerVars == <<ragOnDisk, instances, facades, lastCall, ret>>

\* What the registry, the loader and the providers only read or ignore.
envVars == <<env, dotenv, disk>>

moduleVars == <<sysModules, loadResult>>

\* ---------------------------------------------------------------- values

None == "None"

\* The feature names used for registrations.
Names == {"ai_integration", "file_management", "bulk_generation"}

\* The implementing types handed to the decorator.
Classes == {"ClassA", "ClassB"}

\* Longest dependency list a registration passes.
MaxDeps == 1

RECURSIVE SeqsUpTo(_, _)
SeqsUpTo(S, n) ==
    IF n = 0 THEN {<<>>}
    ELSE LET shorter == SeqsUpTo(S, n - 1)
         IN  shorter \cup {Append(s, x) : s \in shorter, x \in S}

\* The names that dependency lists mention.
DepNames == {"ai_integration", "file_management"}

DepLists == SeqsUpTo(DepNames, MaxDeps)

\* The dependencies argument of register: omitted (None) or a list.
DepArgs == {[tag |-> "none"]} \cup {[tag |-> "list", val |-> l] : l \in DepLists}

Range(s) == {s[i] : i \in 1..Len(s)}

\* --------------------------------------------- environment and configuration

\* The API key variables config.py requires.
Keys == {"GROQ_API_KEY", "OPENROUTER_API_KEY"}

\* os.getenv(k)
getenv(e, k) == IF k \in e THEN "secret" ELSE None

\* config.py loads iff config(k) finds every required key, in the process
\* environment first and in the configuration file otherwise.
ConfigLoads(e, f) == \A k \in Keys : k \in e \cup f

\* ------------------------------------------------------- the feature modules

Modules == {"ai_integration", "file_management", "bulk_generation",
            "code_analysis", "dataset_handling"}

\* The classmethods FeatureRegistry has.
RegistryAttributes == {"register", "get_feature", "is_feature_enabled",
                       "get_all_features", "get_feature_dependencies",
                       "get_dependent_features"}

\* The feature modules a feature module imports before it registers.
FeatureImports(m) ==
    IF m = "bulk_generation" THEN <<"ai_integration", "file_management">>
    ELSE <<>>

\* The feature modules that import config.
ImportsConfig(m) == m = "ai_integration"

\* The decorator each feature module applies to its class.
Decorator(m) ==
    CASE m = "ai_integration" ->
           [attr |-> "register", name |-> "ai_integration",
            class |-> "AIIntegration", dependencies |-> [tag |-> "none"]]
      [] m = "file_management" ->
           [attr |-> "register", name |-> "file_management",
            class |-> "FileManager", dependencies |-> [tag |-> "none"]]
      [] m = "bulk_generation" ->
           [attr |-> "register", name |-> "bulk_generation",
            class |-> "BulkGenerator",
            dependencies |-> [tag |-> "list",
                              val |-> <<"ai_integration", "file_management">>]]
      [] m = "code_analysis" ->
           [attr |-> "register", name |-> "code_analysis",
            class |-> "CodeAnalyzer",
            dependencies |-> [tag |-> "list", val |-> <<"ai_integration">>]]
      [] m = "dataset_handling" ->
           [attr |-> "register_feature", name |-> "dataset_handling",
            class |-> "DatasetHandler", dependencies |-> [tag |-> "none"]]

\* The exceptions add_feature catches: ImportError and its subclasses.
ImportErrors == {"ImportError", "ModuleNotFoundError"}

\* ------------------------------------------------- the insertion-ordered dict

HasKey(d, k) == \E i \in 1..Len(d) : d[i].name = k

IndexOf(d, k) == CHOOSE i \in 1..Len(d) : d[i].name = k

\* d[k] = v moved to the end of the dict (what the dict does not do).
DictSetMoveToEnd(d, k, v) ==
    Append(SelectSeq(d, LAMBDA e : e.name # k), v)

\* d[k] = v : a present key keeps its position, a new key goes last.
DictSet(d, k, v) ==
    IF HasKey(d, k) THEN [d EXCEPT ![IndexOf(d, k)] = v] ELSE Append(d, v)

\* d.pop(k, None) removing the key and every entry that depends on it.
DictPopCascade(d, k) ==
    SelectSeq(d, LAMBDA e : e.name # k /\ k \notin Range(e.dependencies))

\* d.pop(k, None)
DictPop(d, k) == SelectSeq(d, LAMBDA e : e.name # k)

\* ------------------------------------------------------- FeatureRegistry

\* `dependencies or []`
OrEmpty(arg) == IF arg.tag = "none" THEN <<>> ELSE arg.val

\* A registration that keeps the entry a present name already has.
register_first_wins(d, name, feature_class, dependencies) ==
    IF HasKey(d, name) THEN d
    ELSE Append(d, [name |-> name, class |-> feature_class,
                    dependencies |-> OrEmpty(dependencies)])

register(d, name, feature_class, dependencies) ==
    DictSet(d, name, [name |-> name, class |-> feature_class,
                      dependencies |-> OrEmpty(dependencies)])

get_feature(d, name) ==
    IF HasKey(d, name) THEN d[IndexOf(d, name)].class ELSE None

is_feature_enabled(d, feature_name) == HasKey(d, feature_name)

get_all_features(d) == [i \in 1..Len(d) |-> d[i].name]

get_feature_dependencies(d, feature_name) ==
    IF HasKey(d, feature_name) THEN d[IndexOf(d, feature_name)].dependencies
    ELSE <<>>

\* The dependencies of feature_name instead of its dependents.
get_dependent_features_swapped(d, feature_name) ==
    get_feature_dependencies(d, feature_name)

get_dependent_features(d, feature_name) ==
    LET hits == SelectSeq(d, LAMBDA e : feature_name \in Range(e.dependencies))
    IN  [i \in 1..Len(hits) |-> hits[i].name]

\* FeatureRegistry._features.pop(feature_name, None), as remove_feature does.
unregister(d, feature_name) == DictPop(d, feature_name)

\* ------------------------------------------------------ history variables

\* name is inserted last unless it is already present.
InsertAfterRegister(o, name) ==
    IF name \in Range(o) THEN o ELSE Append(o, name)

OrderAfterRemove(o, name) == SelectSeq(o, LAMBDA n : n # name)

\* ------------------------------------------------------------------ Init

Init ==
    /\ features = <<>>
    /\ lastRegistered = None
    /\ insertOrder = <<>>
    /\ echo = "none"
    /\ env \in SUBSET Keys
    /\ dotenv \in SUBSET Keys
    /\ sysModules = {}
    /\ loadResult = [m \in Modules |-> "unloaded"]
    /\ ragOnDisk \in BOOLEAN
    /\ instances = <<>>
    /\ facades = <<>>
    /\ lastCall = [kind |-> "none"]
    /\ disk = [p \in {} |-> ""]
    /\ ret = [op |-> "none", kind |-> "none"]

\* --------------------------------------------------------------- actions

\* @FeatureRegistry.register(name, dependencies) applied to feature_class
Register(name, feature_class, dependencies) ==
    /\ features' = register(features, name, feature_class, dependencies)
    /\ lastRegistered' = name
    /\ insertOrder' = InsertAfterRegister(insertOrder, name)
    /\ echo' = "none"
    /\ UNCHANGED <<envVars, moduleVars, providerVars>>

\* feature_manager.py remove_feature FEATURE_NAME, with the operator's
\* answer to the confirmation prompt
RemoveFeature(feature_name, confirm) ==
    /\ IF ~is_feature_enabled(features, feature_name)
       THEN /\ echo' = "not_enabled"
            /\ lastRegistered' = None
            /\ UNCHANGED <<features, insertOrder>>
       ELSE IF get_dependent_features(features, feature_name) # <<>> /\ ~confirm
       THEN /\ echo' = "declined"
            /\ lastRegistered' = None
            /\ UNCHANGED <<features, insertOrder>>
       ELSE /\ features' = unregister(features, feature_name)
            /\ lastRegistered' = None
            /\ insertOrder' = OrderAfterRemove(insertOrder, feature_name)
            /\ echo' = "removed"
    /\ UNCHANGED <<envVars, moduleVars, providerVars>>

DoRegister ==
    \E name \in Names, feature_class \in Classes, dependencies \in DepArgs :
        Register(name, feature_class, dependencies)

DoRemoveFeature ==
    \E feature_name \in Names, confirm \in BOOLEAN :
        RemoveFeature(feature_name, confirm)

NextRegistry == DoRegister \/ DoRemoveFeature

\* The registry does not read the environment: one environment is enough.
InitRegistry == Init /\ env = {} /\ dotenv = {} /\ ragOnDisk = FALSE

SpecRegistry == InitRegistry /\ [][NextRegistry]_vars

\* ------------------------------------------------ loading feature modules

\* importlib.import_module("features." + m): the registrations it runs and
\* how it ends.  st = [mods, feats, ins, last, err].
RECURSIVE ImportModule(_, _)
RECURSIVE ImportAll(_, _)

ImportAll(ms, st) ==
    IF ms = <<>> \/ st.err # None THEN st
    ELSE ImportAll(Tail(ms), ImportModule(Head(ms), st))

ImportModule(m, st) ==
    IF m \in st.mods THEN st
    ELSE IF m \notin Modules THEN [st EXCEPT !.err = "ModuleNotFoundError"]
    ELSE LET imported == ImportAll(FeatureImports(m), st)
             d == Decorator(m)
         IN  IF imported.err # None THEN imported
             ELSE IF ImportsConfig(m) /\ ~ConfigLoads(env, dotenv)
             THEN [imported EXCEPT !.err = "UndefinedValueError"]
             ELSE IF d.attr \notin RegistryAttributes
             THEN [imported EXCEPT !.err = "AttributeError"]
             ELSE [mods  |-> imported.mods \cup {m},
                   feats |-> register(imported.feats, d.name, d.class, d.dependencies),
                   ins   |-> InsertAfterRegister(imported.ins, d.name),
                   last  |-> d.name,
                   err   |-> None]

ImportFrom(m) ==
    ImportModule(m, [mods |-> sysModules, feats |-> features,
                     ins |-> insertOrder, last |-> None, err |-> None])

ResultOf(st) == IF st.err = None THEN "ok" ELSE st.err

\* An adapter or a test imports the feature module m.
LoadModule(m) ==
    LET st == ImportFrom(m)
    IN  /\ sysModules' = st.mods
        /\ features' = st.feats
        /\ insertOrder' = st.ins
        /\ lastRegistered' = st.last
        /\ loadResult' = [loadResult EXCEPT ![m] = ResultOf(st)]
        /\ echo' = "none"
        /\ UNCHANGED <<envVars, providerVars>>

\* feature_manager.py add_feature FEATURE_NAME
AddFeature(feature_name) ==
    LET st == ImportFrom(feature_name)
    IN  /\ sysModules' = st.mods
        /\ features' = st.feats
        /\ insertOrder' = st.ins
        /\ lastRegistered' = st.last
        /\ loadResult' = IF feature_name \in Modules
                          THEN [loadResult EXCEPT ![feature_name] = ResultOf(st)]
                          ELSE loadResult
        /\ echo' = IF st.err = None THEN "added"
                    ELSE IF st.err \in ImportErrors THEN "not_found"
                    ELSE "uncaught"
        /\ UNCHANGED <<envVars, providerVars>>

DoLoadModule == \E m \in Modules : LoadModule(m)

DoAddFeature == \E feature_name \in Modules \cup {"no_such_feature"} :
                    AddFeature(feature_name)

NextFeatures == DoLoadModule \/ DoAddFeature

\* Importing a feature module does not look at the retrieval store.
InitFeatures == Init /\ ragOnDisk = FALSE

SpecFeatures == InitFeatures /\ [][NextFeatures]_vars

\* ---------------------------------------------------------- the providers

\* providers/__init__.py PROVIDERS
PROVIDERS == [groq |-> "GroqProvider", ollama |-> "OllamaProvider",
              openrouter |-> "OpenRouterProvider"]

ProviderClasses == {PROVIDERS[n] : n \in DOMAIN PROVIDERS}

\* The provider names callers pass: the table's names and another name.
ProviderArgs == DOMAIN PROVIDERS \cup {"unknown-x"}

\* A stale default that the catalog does not list.
default_model_stale(cls) ==
    CASE cls = "GroqProvider" -> "llama3-8b-8192"
      [] cls = "OllamaProvider" -> "Replete-Coder-Qwen-1.5b-Q6_K:latest"
      [] cls = "OpenRouterProvider" -> "qwen/qwen2-7b-instruct:free"

default_model(cls) ==
    CASE cls = "GroqProvider" -> "llama-3.1-8b-instant"
      [] cls = "OllamaProvider" -> "Replete-Coder-Qwen-1.5b-Q6_K:latest"
      [] cls = "OpenRouterProvider" -> "qwen/qwen2-7b-instruct:free"

available_models(cls) ==
    CASE cls = "GroqProvider" ->
           <<"llama-3.1-70b-versatile", "llama-3.1-8b-instant",
             "mixtral-8x7b-32768", "gemma-7b-it">>
      [] cls = "OllamaProvider" ->
           <<"Replete-Coder-Qwen-1.5b-Q6_K:latest",
             "qwen2-1_5b-instruct-q8_0:latest">>
      [] cls = "OpenRouterProvider" ->
           <<"nousresearch/hermes-3-llama-3.1-405b:free",
             "mistralai/mistral-7b-instruct:free",
             "meta-llama/llama-3.1-8b-instruct:free",
             "microsoft/phi-3-mini-128k-instruct:free",
             "qwen/qwen2-7b-instruct:free">>

\* A model configuration; the temperature is kept in tenths (0.7 is 7).
ModelConfig(max_tokens, temperature_tenths) ==
    [k \in {"max_tokens", "temperature"} |->
        IF k = "max_tokens" THEN max_tokens ELSE temperature_tenths]

\* The empty dict {}.
EmptyConfig == [k \in {} |-> 0]

\* The `configs` dict literal of each get_model_config.
configs(cls) ==
    CASE cls = "GroqProvider" ->
           [m \in {"llama-3.1-70b-versatile", "llama-3.1-8b-instant",
                   "mixtral-8x7b-32768", "gemma-7b-it"} |->
              CASE m = "llama-3.1-70b-versatile" -> ModelConfig(4096, 2)
                [] m = "llama-3.1-8b-instant" -> ModelConfig(4096, 7)
                [] m = "mixtral-8x7b-32768" -> ModelConfig(32768, 8)
                [] m = "gemma-7b-it" -> ModelConfig(8192, 7)]
      [] cls = "OllamaProvider" ->
           [m \in {"Replete-Coder-Qwen-1.5b-Q6_K:latest",
                   "qwen2-1_5b-instruct-q8_0:latest"} |-> ModelConfig(2048, 3)]
      [] cls = "OpenRouterProvider" ->
           [m \in {"nousresearch/hermes-3-llama-3.1-405b:free",
                   "meta-llama/llama-3.1-8b-instruct:free",
                   "mistralai/mistral-7b-instruct:free",
                   "microsoft/phi-3-mini-128k-instruct:free",
                   "qwen/qwen2-7b-instruct:free"} |->
              IF m = "nousresearch/hermes-3-llama-3.1-405b:free"
              THEN ModelConfig(4096, 0) ELSE ModelConfig(4096, 3)]

\* configs.get(model_name) falling back to the default model's entry.
get_model_config_fallback(cls, model_name) ==
    IF model_name \in DOMAIN configs(cls) THEN configs(cls)[model_name]
    ELSE configs(cls)[default_model(cls)]

\* configs.get(model_name, {})
get_model_config(cls, model_name) ==
    IF model_name \in DOMAIN configs(cls) THEN configs(cls)[model_name]
    ELSE EmptyConfig

\* The model names callers pass to a provider of class cls (None: no
\* provider): its default model, a name of no catalog, and None.
ModelArgs(cls) ==
    IF cls = None THEN {"unknown-model", None}
    ELSE {default_model(cls), "unknown-model", None}

base_url(cls) ==
    CASE cls = "GroqProvider" -> "https://api.groq.com/openai/v1"
      [] cls = "OllamaProvider" -> "http://localhost:11434"
      [] cls = "OpenRouterProvider" -> "https://openrouter.ai/api/v1"

\* cls(): the instance, or the error the constructor raises.
Construct(cls, e) ==
    CASE cls = "GroqProvider" ->
           IF getenv(e, "GROQ_API_KEY") = None
           THEN [ok |-> FALSE, err |-> "GROQ_API_KEY environment variable is not set"]
           ELSE [ok |-> TRUE,
                 inst |-> [cls |-> cls, api_key |-> getenv(e, "GROQ_API_KEY"),
                           base_url |-> base_url(cls)]]
      [] cls = "OllamaProvider" ->
           [ok |-> TRUE,
            inst |-> [cls |-> cls, api_key |-> "no api_key attribute",
                      base_url |-> base_url(cls)]]
      [] cls = "OpenRouterProvider" ->
           [ok |-> TRUE,
            inst |-> [cls |-> cls, api_key |-> getenv(e, "OPENROUTER_API_KEY"),
                      base_url |-> base_url(cls)]]

\* PROVIDERS.get(name) that falls back to the local provider.
provider_class_fallback(name) ==
    IF name \in DOMAIN PROVIDERS THEN PROVIDERS[name] ELSE "OllamaProvider"

\* PROVIDERS.get(name)
provider_class(name) ==
    IF name \in DOMAIN PROVIDERS THEN PROVIDERS[name] ELSE None

\* get_provider(name): the error it raises or the instance it constructs.
get_provider(name, e) ==
    IF provider_class(name) = None
    THEN [ok |-> FALSE, err |-> "Unknown provider"]
    ELSE Construct(provider_class(name), e)

\* get_llm: `if model_name is None: model_name = self.default_model`
get_llm_model(cls, model_name) ==
    IF model_name = None THEN default_model(cls) ELSE model_name

\* The HTTP request a generate_code call sends.
Request(inst, model_name, prompt) ==
    CASE inst.cls = "GroqProvider" ->
           [url |-> "https://api.groq.com/openai/v1/chat/completions",
            model |-> get_llm_model(inst.cls, model_name),
            prompt |-> prompt, authorization |-> inst.api_key,
            shape |-> "chat, max_tokens 2048"]
      [] inst.cls = "OllamaProvider" ->
           [url |-> "http://localhost:11434/api/generate",
            model |-> model_name,
            prompt |-> prompt, authorization |-> "no header",
            shape |-> "prompt, stream false"]
      [] inst.cls = "OpenRouterProvider" ->
           [url |-> "https://openrouter.ai/api/v1/chat/completions",
            model |-> model_name,
            prompt |-> prompt, authorization |-> inst.api_key,
            shape |-> "chat, max_tokens 2048"]

\* How the backend answers a request.
Responses == {"ok", "error status", "no connection"}

\* What generate_code returns or raises for a response.
Outcome(response) ==
    CASE response = "ok" -> [kind |-> "text", val |-> "completion"]
      [] response = "error status" -> [kind |-> "error", val |-> "HTTPStatusError"]
      [] response = "no connection" -> [kind |-> "error", val |-> "ConnectError"]

Prompts == {"prompt"}

\* Most provider instances kept in the model.
MaxInstances == 2

\* Most facades kept in the model.
MaxFacades == 2

\* _load_rag that never opens the persisted store.
load_rag_never(exists) == None

\* _load_rag after `self.vectorstore = None`: the persisted store is opened
\* if os.path.exists(self.rag_path).
load_rag(exists) == IF exists THEN "persisted" ELSE None

\* self.dataset = None (a DataFrame is a record of its rows)
NoDataset == [none |-> TRUE]

\* `model_name if model_name is not None else self.provider.default_model`
\* that keeps the None it was given.
bound_model_unresolved(model_name, cls) == model_name

\* `model_name if model_name is not None else self.provider.default_model`
bound_model(model_name, cls) ==
    IF model_name # None THEN model_name ELSE default_model(cls)

\* providers.get_provider(name)
GetProvider(name) ==
    LET r == get_provider(name, env)
    IN  /\ r.ok => Len(instances) < MaxInstances
        /\ IF r.ok
           THEN /\ instances' = Append(instances, r.inst)
                /\ ret' = [op |-> "get_provider", name |-> name,
                           kind |-> "provider", val |-> Len(instances) + 1]
           ELSE /\ ret' = [op |-> "get_provider", name |-> name,
                           kind |-> "error", val |-> "ValueError", msg |-> r.err]
                /\ UNCHANGED instances
        /\ UNCHANGED <<registryVars, envVars, moduleVars, ragOnDisk, facades, lastCall>>

\* AIIntegration(provider_name, model_name); the class exists once its module
\* has been imported, which config.py must allow.
ConstructFacade(provider_name, model_name) ==
    LET r == get_provider(provider_name, env)
    IN  /\ ConfigLoads(env, dotenv)
        /\ r.ok => Len(instances) < MaxInstances /\ Len(facades) < MaxFacades
        /\ IF r.ok
           THEN /\ instances' = Append(instances, r.inst)
                /\ facades' = Append(facades,
                     [provider |-> Len(instances) + 1,
                      model_name |-> bound_model(model_name, r.inst.cls),
                      vectorstore |-> load_rag(ragOnDisk),
                      dataset |-> NoDataset])
                /\ ret' = [op |-> "AIIntegration", name |-> provider_name,
                           model_name |-> model_name,
                           kind |-> "facade", val |-> Len(facades) + 1]
           ELSE /\ ret' = [op |-> "AIIntegration", name |-> provider_name,
                           model_name |-> model_name,
                           kind |-> "error", val |-> "ValueError",
                           msg |-> "Failed to initialize provider",
                           cause |-> r.err]
                /\ UNCHANGED <<instances, facades>>
        /\ UNCHANGED <<registryVars, envVars, moduleVars, ragOnDisk, lastCall>>

\* instances[i].get_model_config(model_name)
GetModelConfig(i, model_name) ==
    /\ ret' = [op |-> "get_model_config", cls |-> instances[i].cls,
               model_name |-> model_name, kind |-> "config",
               val |-> get_model_config(instances[i].cls, model_name)]
    /\ UNCHANGED <<registryVars, envVars, moduleVars, ragOnDisk, instances,
                   facades, lastCall>>

\* instances[i].generate_code(model_name, prompt), answered by response
GenerateCode(i, model_name, prompt, response) ==
    /\ lastCall' = [kind |-> "call", instance |-> i, model_name |-> model_name,
                    request |-> Request(instances[i], model_name, prompt)]
    /\ ret' = [op |-> "generate_code", kind |-> Outcome(response).kind,
               val |-> Outcome(response).val]
    /\ UNCHANGED <<registryVars, envVars, moduleVars, ragOnDisk, instances, facades>>

DoGetProvider == \E name \in ProviderArgs : GetProvider(name)

DoConstructFacade ==
    \E provider_name \in ProviderArgs :
        \E model_name \in ModelArgs(provider_class(provider_name)) :
            ConstructFacade(provider_name, model_name)

DoGetModelConfig ==
    \E i \in 1..Len(instances) :
        \E model_name \in ModelArgs(instances[i].cls) :
            GetModelConfig(i, model_name)

DoGenerateCode ==
    \E i \in 1..Len(instances), prompt \in Prompts, response \in Responses :
        \E model_name \in ModelArgs(instances[i].cls) :
            GenerateCode(i, model_name, prompt, response)

NextProviders ==
    DoGetProvider \/ DoConstructFacade \/ DoGetModelConfig \/ DoGenerateCode

\* The configuration file provides the keys, so that features.ai_integration
\* can be imported whatever the process environment holds; the process
\* environment holds both keys or neither; no retrieval store has been
\* persisted.
InitProviders ==
    Init /\ env \in {{}, Keys} /\ dotenv = Keys /\ ragOnDisk = FALSE

SpecProviders == InitProviders /\ [][NextProviders]_vars

\* ------------------------------------------------ the facade: generation

\* JSON values of a response body.
JsonObject(fields) == [type |-> "object", val |-> fields]

JsonString(s) == [type |-> "string", val |-> s]

JsonNull == [type |-> "null"]

JsonArray == [type |-> "array"]

\* What response.json() gives for a body that is not JSON (it raises
\* ValueError).
NotJson == [type |-> "not json"]

\* The HTTP responses with a non-success status: status code, raw body and
\* the body parsed as JSON.
ErrorResponses ==
    { [status_code |-> 502, text |-> "Bad Gateway", json |-> NotJson],
      [status_code |-> 429,
       text |-> "{\"error\": {\"message\": \"rate limited\"}}",
       json |-> JsonObject([error |-> JsonObject([message |-> JsonString("rate limited")])])],
      [status_code |-> 500, text |-> "{\"detail\": \"oops\"}",
       json |-> JsonObject([detail |-> JsonString("oops")])],
      [status_code |-> 400, text |-> "{\"error\": {\"code\": \"bad\"}}",
       json |-> JsonObject([error |-> JsonObject([code |-> JsonString("bad")])])],
      [status_code |-> 404, text |-> "{\"error\": \"model not found\"}",
       json |-> JsonObject([error |-> JsonString("model not found")])],
      [status_code |-> 503, text |-> "{\"error\": null}",
       json |-> JsonObject([error |-> JsonNull])],
      [status_code |-> 500, text |-> "[]", json |-> JsonArray] }

\* The texts a backend generates.
Texts == {"text one", "text two"}

\* How a provider's generate_code ends: it returns the backend's text, or
\* raise_for_status raises HTTPStatusError carrying the response, or the
\* request raises another exception.
Answers ==
    {[kind |-> "text", val |-> t] : t \in Texts}
    \cup {[kind |-> "status", response |-> r] : r \in ErrorResponses}
    \cup {[kind |-> "raise", exc |-> "ConnectError", msg |-> "connection refused"]}

\* error_data.get('error', {})
error_field(error_data) ==
    IF "error" \in DOMAIN error_data.val THEN error_data.val.error
    ELSE JsonObject([k \in {} |-> JsonNull])

\* AIIntegration._parse_error_response: the detail it returns, with the
\* values formatted into it, or the exception that leaves it (only
\* ValueError is caught there; .get on a value that is not a dict raises
\* AttributeError).
parse_error_response(response) ==
    IF response.json = NotJson
    THEN [kind |-> "detail",
          val |-> "HTTP " \o ToString(response.status_code) \o ": " \o response.text,
          parts |-> {ToString(response.status_code), response.text}]
    ELSE IF response.json.type # "object"
    THEN [kind |-> "raise", exc |-> "AttributeError"]
    ELSE LET error == error_field(response.json)
         IN  IF error.type # "object"
             THEN [kind |-> "raise", exc |-> "AttributeError"]
             ELSE IF "message" \in DOMAIN error.val
             THEN [kind |-> "detail", val |-> error.val.message.val,
                   parts |-> {error.val.message.val}]
             ELSE [kind |-> "detail", val |-> "Unknown error occurred",
                   parts |-> {}]

\* AIIntegration.generate_code: what it returns or raises when the provider
\* call ends with answer; msg is the error's message and parts the values
\* formatted into it.  An exception raised inside the HTTPStatusError
\* handler is not caught by the `except Exception` clause next to it.
facade_generate_code(answer) ==
    CASE answer.kind = "text" ->
           [kind |-> "text", val |-> answer.val, msg |-> "", parts |-> {}]
      [] answer.kind = "status" ->
           LET error_detail == parse_error_response(answer.response)
           IN  IF error_detail.kind = "raise"
               THEN [kind |-> "error", val |-> error_detail.exc,
                     msg |-> "object has no attribute 'get'", parts |-> {}]
               ELSE [kind |-> "error", val |-> "ValueError",
                     msg |-> "API request failed: " \o error_detail.val,
                     parts |-> error_detail.parts]
      [] answer.kind = "raise" ->
           [kind |-> "error", val |-> "ValueError",
            msg |-> "Code generation failed: " \o answer.msg,
            parts |-> {answer.msg}]

\* explain_code: f"Explain the following code:\n\n{code}"
explain_prompt(code) == "Explain the following code:\n\n" \o code

\* The provider call self.provider.generate_code(self.model_name, prompt) of
\* facade f.
ProviderCall(f, prompt) ==
    [instance |-> facades[f].provider, model_name |-> facades[f].model_name,
     prompt |-> prompt]

\* The request behind a provider call.
CallRequest(call) ==
    [kind |-> "call", instance |-> call.instance, model_name |-> call.model_name,
     request |-> Request(instances[call.instance], call.model_name, call.prompt)]

PromptArgs == {"write a function"}

CodeArgs == {"def f(): pass"}

\* facades[f].generate_code(prompt), the provider call ending with answer
FacadeGenerateCode(f, prompt, answer) ==
    LET call == ProviderCall(f, prompt)
        out == facade_generate_code(answer)
    IN  /\ lastCall' = CallRequest(call)
        /\ ret' = [op |-> "facade.generate_code", facade |-> f, arg |-> prompt,
                   answers |-> <<answer>>, calls |-> <<call>>,
                   kind |-> out.kind, val |-> out.val, msg |-> out.msg,
                   parts |-> out.parts]
        /\ UNCHANGED <<registryVars, envVars, moduleVars, ragOnDisk, instances, facades>>

\* facades[f].explain_code(code), the provider call ending with answer
ExplainCode(f, code, answer) ==
    LET call == ProviderCall(f, explain_prompt(code))
        out == facade_generate_code(answer)
    IN  /\ lastCall' = CallRequest(call)
        /\ ret' = [op |-> "facade.explain_code", facade |-> f, arg |-> code,
                   answers |-> <<answer>>, calls |-> <<call>>,
                   kind |-> out.kind, val |-> out.val, msg |-> out.msg,
                   parts |-> out.parts]
        /\ UNCHANGED <<registryVars, envVars, moduleVars, ragOnDisk, instances, facades>>

DoFacadeGenerateCode ==
    \E f \in 1..Len(facades), prompt \in PromptArgs, answer \in Answers :
        FacadeGenerateCode(f, prompt, answer)

DoExplainCode ==
    \E f \in 1..Len(facades), code \in CodeArgs, answer \in Answers :
        ExplainCode(f, code, answer)

NextGenerate == DoConstructFacade \/ DoFacadeGenerateCode \/ DoExplainCode

\* Both keys are set in the process environment, so that every provider of
\* the table can be constructed, and no retrieval store has been persisted.
InitGenerate == Init /\ env = Keys /\ dotenv = Keys /\ ragOnDisk = FALSE

SpecGenerate == InitGenerate /\ [][NextGenerate]_vars

\* --------------------------------------------------- the facade: datasets

\* Most data rows of a dataset file.
MaxRows == 2

\* Most iterations asked of analyze_row.
MaxIterations == 2

\* A path is a sequence of name pieces and the separators "." and "/".
DatasetPaths ==
    { <<"data", ".", "csv">>, <<"data", ".", "CSV">>, <<"rows", ".", "Json">>,
      <<"data", ".", "xml">>, <<".", "csv">>, <<"v1", ".", "csv", "/", "data">>,
      <<"missing", ".", "csv">>, <<"broken", ".", "json">> }

\* row_data.to_dict() formatted into the prompt, for data row i of a file.
RowData(i) == "{'x': " \o ToString(i) \o "}"

RowsOf(n) == [i \in 1..n |-> RowData(i)]

\* The files that exist, with the format of their content and their data
\* rows; a path outside the domain is an absent file.
DataFiles ==
    [p \in DatasetPaths \ {<<"missing", ".", "csv">>} |->
        CASE p = <<"data", ".", "csv">> -> [format |-> "csv", rows |-> RowsOf(MaxRows)]
          [] p = <<"data", ".", "CSV">> -> [format |-> "csv", rows |-> RowsOf(1)]
          [] p = <<"rows", ".", "Json">> -> [format |-> "json", rows |-> RowsOf(1)]
          [] p = <<"data", ".", "xml">> -> [format |-> "csv", rows |-> RowsOf(1)]
          [] p = <<".", "csv">> -> [format |-> "csv", rows |-> RowsOf(1)]
          [] p = <<"v1", ".", "csv", "/", "data">> -> [format |-> "csv", rows |-> RowsOf(1)]
          [] p = <<"broken", ".", "json">> -> [format |-> "garbage", rows |-> <<>>]]

\* The largest i in 1..Len(p) with p[i] = c, or 0.
LastIndex(p, c) ==
    LET hits == {i \in 1..Len(p) : p[i] = c}
    IN  IF hits = {} THEN 0 ELSE CHOOSE i \in hits : \A j \in hits : j <= i

\* os.path.splitext(p)[1]: from the last dot of the last component on,
\* unless only dots precede it in that component.
splitext(p) ==
    LET sepIndex == LastIndex(p, "/")
        dotIndex == LastIndex(p, ".")
    IN  IF dotIndex > sepIndex
           /\ \E i \in (sepIndex + 1)..(dotIndex - 1) : p[i] # "."
        THEN SubSeq(p, dotIndex, Len(p))
        ELSE <<>>

\* file_extension compared without .lower()
lower_identity(ext) == ext

\* str.lower() on the pieces of an extension
lower(ext) ==
    [i \in 1..Len(ext) |->
        CASE ext[i] = "CSV" -> "csv"
          [] ext[i] = "Json" -> "json"
          [] OTHER -> ext[i]]

\* pd.read_csv / pd.read_json: the DataFrame, or the exception raised for
\* an absent file or for content that does not parse.
read_frame(format, p) ==
    IF p \notin DOMAIN DataFiles
    THEN [ok |-> FALSE, err |-> "FileNotFoundError"]
    ELSE IF DataFiles[p].format # format
    THEN [ok |-> FALSE, err |-> "ParserError"]
    ELSE [ok |-> TRUE, frame |-> [rows |-> DataFiles[p].rows]]

\* The body of load_dataset's try block.
load_dataset(dataset_path) ==
    LET file_extension == splitext(dataset_path)
    IN  IF lower(file_extension) = <<".", "csv">> THEN read_frame("csv", dataset_path)
        ELSE IF lower(file_extension) = <<".", "json">> THEN read_frame("json", dataset_path)
        ELSE [ok |-> FALSE, err |-> "Unsupported file format"]

\* facades[f].load_dataset(dataset_path)
LoadDataset(f, dataset_path) ==
    LET r == load_dataset(dataset_path)
    IN  /\ IF r.ok
           THEN /\ facades' = [facades EXCEPT ![f].dataset = r.frame]
                /\ ret' = [op |-> "facade.load_dataset", facade |-> f,
                           arg |-> dataset_path, kind |-> "text",
                           val |-> "Dataset loaded successfully",
                           shape |-> Len(r.frame.rows)]
           ELSE /\ ret' = [op |-> "facade.load_dataset", facade |-> f,
                           arg |-> dataset_path, kind |-> "error",
                           val |-> "ValueError",
                           msg |-> "Failed to load dataset", cause |-> r.err]
                /\ UNCHANGED facades
        /\ UNCHANGED <<registryVars, envVars, moduleVars, ragOnDisk, instances, lastCall>>

\* The row bound check without its `row < 0` half.
out_of_bounds_upper_only(row, length) == row >= length

\* `row < 0 or row >= len(self.dataset)`
out_of_bounds(row, length) == row < 0 \/ row >= length

\* self.dataset.iloc[row]: positions count from 0, negative ones from the end.
iloc(frame, row) ==
    IF row >= 0 THEN frame.rows[row + 1] ELSE frame.rows[Len(frame.rows) + row + 1]

analysis_prompt(row_data) ==
    "Analyze the following data:\n\n" \o row_data
        \o "\n\nProvide insights and potential next steps."

\* sep.join(parts)
RECURSIVE join(_, _)
join(sep, parts) ==
    IF parts = <<>> THEN ""
    ELSE IF Len(parts) = 1 THEN parts[1]
    ELSE parts[1] \o sep \o join(sep, Tail(parts))

\* "\n".join(analysis)
joined_analysis_single_newline(analysis) == join("\n", analysis)

\* "\n\n".join(analysis)
joined_analysis(analysis) == join("\n\n", analysis)

\* The loop of analyze_row from iteration k on: analysis holds the outputs
\* so far, answers[k] is how the k-th provider call ends.  It gives the
\* number of calls made and what analyze_row returns or raises.
RECURSIVE analyze_loop(_, _, _, _)
analyze_loop(k, iterations, answers, analysis) ==
    IF k > iterations
    THEN [n |-> k - 1, kind |-> "text", val |-> joined_analysis(analysis), msg |-> ""]
    ELSE LET out == facade_generate_code(answers[k])
         IN  IF out.kind = "error"
             THEN [n |-> k, kind |-> "error", val |-> out.val, msg |-> out.msg]
             ELSE analyze_loop(k + 1, iterations, answers, Append(analysis, out.val))

\* How the provider calls of analyze_row end.
AnalyzeAnswers ==
    {a \in Answers :
        \/ a.kind \in {"text", "raise"}
        \/ a.kind = "status" /\ a.response.status_code \in {429, 404}}

AnswerLists(n) == [1..n -> AnalyzeAnswers]

\* The integers passed as row.
RowArgs == (0 - 1)..MaxRows

\* facades[f].analyze_row(row, iterations) for an integer row; answers[k] is
\* how the k-th provider call ends
AnalyzeRow(f, row, iterations, answers) ==
    LET dataset == facades[f].dataset
    IN  IF dataset = NoDataset
        THEN /\ ret' = [op |-> "facade.analyze_row", facade |-> f, row |-> row,
                        iterations |-> iterations, answers |-> <<>>, calls |-> <<>>,
                        kind |-> "error", val |-> "ValueError",
                        msg |-> "No dataset loaded. Please load a dataset first."]
             /\ UNCHANGED <<registryVars, envVars, moduleVars, ragOnDisk,
                            instances, facades, lastCall>>
        ELSE IF out_of_bounds(row, Len(dataset.rows))
        THEN /\ ret' = [op |-> "facade.analyze_row", facade |-> f, row |-> row,
                        iterations |-> iterations, answers |-> <<>>, calls |-> <<>>,
                        kind |-> "error", val |-> "ValueError",
                        msg |-> "Row index " \o ToString(row) \o " is out of bounds."]
             /\ UNCHANGED <<registryVars, envVars, moduleVars, ragOnDisk,
                            instances, facades, lastCall>>
        ELSE LET call == ProviderCall(f, analysis_prompt(iloc(dataset, row)))
                 out == analyze_loop(1, iterations, answers, <<>>)
             IN  /\ ret' = [op |-> "facade.analyze_row", facade |-> f, row |-> row,
                            iterations |-> iterations,
                            answers |-> SubSeq(answers, 1, out.n),
                            calls |-> [k \in 1..out.n |-> call],
                            kind |-> out.kind, val |-> out.val, msg |-> out.msg]
                 /\ lastCall' = IF out.n = 0 THEN lastCall ELSE CallRequest(call)
                 /\ UNCHANGED <<registryVars, envVars, moduleVars, ragOnDisk,
                                instances, facades>>

\* The adapters construct one facade per request; the dataset operations are
\* followed on one facade of the local provider.
DoConstructDatasetFacade ==
    /\ facades = <<>>
    /\ ConstructFacade("ollama", None)

DoLoadDataset ==
    \E f \in 1..Len(facades), dataset_path \in DatasetPaths :
        LoadDataset(f, dataset_path)

DoAnalyzeRow ==
    \E f \in 1..Len(facades), row \in RowArgs, iterations \in 0..MaxIterations :
        \E answers \in AnswerLists(iterations) :
            AnalyzeRow(f, row, iterations, answers)

NextDataset == DoConstructDatasetFacade \/ DoLoadDataset \/ DoAnalyzeRow

InitDataset == Init /\ env = {} /\ dotenv = Keys /\ ragOnDisk = FALSE

SpecDataset == InitDataset /\ [][NextDataset]_vars

\* ------------------------------------------- the facade: the retrieval index

\* The files create_rag is asked to index.
RagFiles == {"notes.txt", "absent.txt"}

\* How far create_rag gets: open() raises FileNotFoundError; or a step
\* before the assignment of self.vectorstore raises (reading, splitting,
\* embedding, Chroma.from_texts); or persist() raises after the assignment;
\* or every step returns.
RagOutcomes(file_path) ==
    IF file_path = "absent.txt" THEN {"file not found"}
    ELSE {"store failed", "persist failed", "persisted"}

\* facades[f].create_rag(file_path); left says whether a failed persist()
\* left something at the storage path
CreateRag(f, file_path, outcome, left) ==
    /\ CASE outcome = "file not found" ->
              /\ ret' = [op |-> "facade.create_rag", facade |-> f,
                         arg |-> file_path, stage |-> "open", kind |-> "error",
                         val |-> "ValueError", msg |-> "File not found: " \o file_path]
              /\ UNCHANGED <<facades, ragOnDisk>>
         [] outcome = "store failed" ->
              /\ ret' = [op |-> "facade.create_rag", facade |-> f,
                         arg |-> file_path, stage |-> "store", kind |-> "error",
                         val |-> "ValueError", msg |-> "Failed to create RAG"]
              /\ UNCHANGED <<facades, ragOnDisk>>
         [] outcome = "persist failed" ->
              /\ facades' = [facades EXCEPT ![f].vectorstore = "built"]
              /\ ragOnDisk' = (ragOnDisk \/ left)
              /\ ret' = [op |-> "facade.create_rag", facade |-> f,
                         arg |-> file_path, stage |-> "persist", kind |-> "error",
                         val |-> "ValueError", msg |-> "Failed to create RAG"]
         [] outcome = "persisted" ->
              /\ facades' = [facades EXCEPT ![f].vectorstore = "built"]
              /\ ragOnDisk' = TRUE
              /\ ret' = [op |-> "facade.create_rag", facade |-> f,
                         arg |-> file_path, stage |-> "done", kind |-> "text",
                         val |-> "RAG created successfully and persisted to disk",
                         msg |-> ""]
    /\ UNCHANGED <<registryVars, envVars, moduleVars, instances, lastCall>>

\* How the retrieval chain's call of the bound model ends.
QueryAnswers == {a \in Answers : a.kind \in {"text", "raise"}}

QueryArgs == {"what is in the notes?", "who wrote them?"}

\* facades[f].query_rag(query); the chain calls the LLM that
\* provider.get_llm(self.model_name) returns, and its exceptions are not
\* caught
QueryRag(f, query, answer) ==
    /\ IF facades[f].vectorstore = None
       THEN ret' = [op |-> "facade.query_rag", facade |-> f, arg |-> query,
                    calls |-> <<>>, kind |-> "error", val |-> "ValueError",
                    msg |-> "RAG has not been created yet. Please create a RAG first."]
       ELSE ret' = [op |-> "facade.query_rag", facade |-> f, arg |-> query,
                    calls |-> <<[instance |-> facades[f].provider,
                                 model_name |-> get_llm_model(
                                     instances[facades[f].provider].cls,
                                     facades[f].model_name),
                                 retriever |-> facades[f].vectorstore,
                                 query |-> query]>>,
                    kind |-> IF answer.kind = "text" THEN "text" ELSE "error",
                    val |-> IF answer.kind = "text" THEN answer.val ELSE answer.exc,
                    msg |-> IF answer.kind = "text" THEN "" ELSE answer.msg]
    /\ UNCHANGED <<registryVars, envVars, moduleVars, ragOnDisk, instances,
                   facades, lastCall>>

\* The retrieval operations are followed on facades of the local provider.
DoConstructRagFacade == ConstructFacade("ollama", None)

DoCreateRag ==
    \E f \in 1..Len(facades), file_path \in RagFiles, left \in BOOLEAN :
        \E outcome \in RagOutcomes(file_path) :
            CreateRag(f, file_path, outcome, left)

DoQueryRag ==
    \E f \in 1..Len(facades), query \in QueryArgs, answer \in QueryAnswers :
        QueryRag(f, query, answer)

NextRag == DoConstructRagFacade \/ DoCreateRag \/ DoQueryRag

\* Nothing is at the storage path before the first build.
InitRag == Init /\ env = {} /\ dotenv = Keys /\ ragOnDisk = FALSE

SpecRag == InitRag /\ [][NextRag]_vars

\* ------------------------------------------------------ bulk generation

\* Most files of a project plan.
MaxFiles == 2

\* The file paths of project plans, as sequences of name pieces and the
\* separators "." and "/".
PlanPaths ==
    { <<"a", ".", "py">>, <<"pkg", "/", "b", ".", "py">>,
      <<"/", "abs", "/", "c", ".", "py">> }

\* project_plan['files']: a dict of path -> description, in its order.
Plans ==
    {plan \in SeqsUpTo(PlanPaths, MaxFiles) :
        \A i, j \in 1..Len(plan) : plan[i] = plan[j] => i = j}

DescriptionOf(file_path) == "module " \o join("", file_path)

\* The output directories: "/out" and the empty string.
OutputDirs == {<<"/", "out">>, <<>>}

\* os.path.join(output_dir, file_path) that keeps output_dir in front of an
\* absolute file_path.
path_join_always(output_dir, file_path) ==
    IF output_dir = <<>> \/ output_dir[Len(output_dir)] = "/"
    THEN output_dir \o file_path
    ELSE output_dir \o <<"/">> \o file_path

\* os.path.join(output_dir, file_path)
path_join(output_dir, file_path) ==
    IF file_path # <<>> /\ file_path[1] = "/" THEN file_path
    ELSE IF output_dir = <<>> \/ output_dir[Len(output_dir)] = "/"
    THEN output_dir \o file_path
    ELSE output_dir \o <<"/">> \o file_path

\* os.path.dirname(p): what precedes the last separator, without it unless
\* it is the root.
dirname(p) ==
    LET sepIndex == LastIndex(p, "/")
    IN  IF sepIndex = 0 THEN <<>>
        ELSE IF sepIndex = 1 THEN <<"/">>
        ELSE SubSeq(p, 1, sepIndex - 1)

\* FileManager.write_file(file_path, content) on the files d: os.makedirs
\* raises FileNotFoundError for the empty directory name of a bare file
\* name; otherwise the file holds content.
write_file(d, file_path, content) ==
    IF dirname(file_path) = <<>>
    THEN [ok |-> FALSE, err |-> "FileNotFoundError", disk |-> d]
    ELSE [ok |-> TRUE,
          disk |-> [p \in DOMAIN d \cup {file_path} |->
                       IF p = file_path THEN content ELSE d[p]]]

file_content_prompt(file_path, file_description) ==
    "Generate the content for the following file:\n\nFile: "
        \o join("", file_path) \o "\nDescription: " \o file_description
        \o "\n\nProvide only the file content in your response."

\* How the content call for file_path ends: the backend returns a text for
\* that file, or the request raises.
BulkAnswers(file_path) ==
    {[kind |-> "text", val |-> "content of " \o join("", file_path)]}
    \cup {a \in Answers : a.kind = "raise"}

\* The ways the content calls for the files of plan end.
BulkAnswerLists(plan) ==
    {answers \in [1..Len(plan) -> UNION {BulkAnswers(p) : p \in PlanPaths}] :
        \A k \in 1..Len(plan) : answers[k] \in BulkAnswers(plan[k])}

\* The loop of create_project from the k-th file of the plan on; answers[k]
\* is how the k-th content call ends, trace the calls and writes made so
\* far, d the files written.
RECURSIVE create_project_loop(_, _, _, _, _, _, _)
create_project_loop(f, plan, output_dir, answers, k, trace, d) ==
    IF k > Len(plan)
    THEN [trace |-> trace, disk |-> d, kind |-> "none", val |-> None, msg |-> ""]
    ELSE LET call == ProviderCall(f, file_content_prompt(plan[k], DescriptionOf(plan[k])))
             out == facade_generate_code(answers[k])
             generated == Append(trace, [event |-> "generate", file |-> k,
                                         call |-> call, kind |-> out.kind])
         IN  IF out.kind = "error"
             THEN [trace |-> generated, disk |-> d, kind |-> "error",
                   val |-> out.val, msg |-> out.msg]
             ELSE LET full_path == path_join(output_dir, plan[k])
                      w == write_file(d, full_path, out.val)
                      written == Append(generated,
                                        [event |-> "write", file |-> k,
                                         path |-> full_path, content |-> out.val,
                                         ok |-> w.ok])
                  IN  IF ~w.ok
                      THEN [trace |-> written, disk |-> w.disk,
                            kind |-> "error", val |-> w.err,
                            msg |-> "No such file or directory: ''"]
                      ELSE create_project_loop(f, plan, output_dir, answers,
                                               k + 1, written, w.disk)

\* BulkGenerator(facades[f], file_manager).create_project(plan, output_dir);
\* answers[k] is how the content call for the k-th file ends
CreateProject(f, plan, output_dir, answers) ==
    \E r \in {create_project_loop(f, plan, output_dir, answers, 1, <<>>, disk)} :
        \E made \in {SelectSeq(r.trace, LAMBDA e : e.event = "generate")} :
        /\ disk' = r.disk
        /\ ret' = [op |-> "create_project", facade |-> f, plan |-> plan,
                   output_dir |-> output_dir,
                   answers |-> SubSeq(answers, 1, Len(made)),
                   trace |-> r.trace, kind |-> r.kind, val |-> r.val,
                   msg |-> r.msg]
        /\ lastCall' = IF made = <<>> THEN lastCall
                       ELSE CallRequest(made[Len(made)].call)
        /\ UNCHANGED <<registryVars, env, dotenv, moduleVars, ragOnDisk,
                       instances, facades>>

\* The generator works on one facade of the local provider.
DoConstructBulkFacade ==
    /\ facades = <<>>
    /\ ConstructFacade("ollama", None)

DoCreateProject ==
    \E f \in 1..Len(facades), plan \in Plans, output_dir \in OutputDirs :
        \E answers \in BulkAnswerLists(plan) :
            CreateProject(f, plan, output_dir, answers)

NextBulk == DoConstructBulkFacade \/ DoCreateProject

InitBulk == Init /\ env = {} /\ dotenv = Keys /\ ragOnDisk = FALSE

SpecBulk == InitBulk /\ [][NextBulk]_vars

\* --------------------------------------- bulk generation: the JSON stages

\* The texts a backend answers a stage with, and what json.loads gives for
\* each: the parsed value, or NotJson where it raises json.JSONDecodeError.
JsonTexts ==
    { [text |-> "{\"summary\": \"s\", \"tech_stack\": {\"language\": \"python\"}}",
       json |-> JsonObject([summary |-> JsonString("s"),
                            tech_stack |-> JsonObject([language |-> JsonString("python")])])],
      [text |-> "{\"files\": {\"a.py\": \"module a.py\"}}",
       json |-> JsonObject([files |-> JsonObject([a_py |-> JsonString("module a.py")])])],
      [text |-> "[]", json |-> JsonArray],
      [text |-> "null", json |-> JsonNull],
      [text |-> "\"python\"", json |-> JsonString("python")],
      [text |-> "Here is the plan: {\"files\": {}}", json |-> NotJson],
      [text |-> "~~~json\n{\"files\": {}}\n~~~", json |-> NotJson],
      [text |-> "{'files': {}}", json |-> NotJson],
      [text |-> "", json |-> NotJson] }

\* json.loads(response)
json_loads(response) == (CHOOSE t \in JsonTexts : t.text = response).json

\* _parse_json_response without its except clause: the decoder's own error
\* leaves it.
parse_json_response_uncaught(response) ==
    LET parsed == json_loads(response)
    IN  IF parsed = NotJson
        THEN [kind |-> "error", val |-> "JSONDecodeError",
              msg |-> "Expecting value"]
        ELSE [kind |-> "value", parsed |-> parsed]

\* BulkGenerator._parse_json_response(response)
parse_json_response(response) ==
    LET parsed == json_loads(response)
    IN  IF parsed = NotJson
        THEN [kind |-> "error", val |-> "ValueError",
              msg |-> "Failed to parse AI response as JSON"]
        ELSE [kind |-> "value", parsed |-> parsed]

requirement_prompt(requirement) ==
    "Analyze the following project requirement and suggest a suitable technology stack:\n\n"
        \o requirement
        \o "\n\nProvide your response in JSON format with 'summary' and 'tech_stack' keys."

\* tech_stack is the dict as the f-string formats it.
plan_prompt(requirement, tech_stack) ==
    "Generate a project plan and file structure for the following requirement using the specified technology stack:\n\nRequirement: "
        \o requirement \o "\n\nTech Stack: " \o tech_stack
        \o "\n\nProvide your response in JSON format with 'files' key containing file paths and descriptions."

Requirements == {"a todo app", "a blog", ""}

TechStacks == {"{'language': 'python'}", "{}"}

\* How the provider call of a stage ends: the backend returns one of the
\* texts, or the call fails as any provider call can.
StageAnswers ==
    {[kind |-> "text", val |-> t.text] : t \in JsonTexts}
    \cup {a \in Answers : a.kind # "text"}

\* A stage after its prompt is built: self.ai.generate_code(prompt), the
\* provider call ending with answer, then _parse_json_response on what it
\* returned; an error of generate_code leaves the stage as it is.
stage(op, f, arg, prompt, answer) ==
    LET call == ProviderCall(f, prompt)
        response == facade_generate_code(answer)
    IN  /\ lastCall' = CallRequest(call)
        /\ ret' = IF response.kind = "error"
                  THEN [op |-> op, facade |-> f, arg |-> arg,
                        answers |-> <<answer>>, calls |-> <<call>>,
                        kind |-> "error", val |-> response.val,
                        msg |-> response.msg]
                  ELSE [op |-> op, facade |-> f, arg |-> arg,
                        answers |-> <<answer>>, calls |-> <<call>>]
                       @@ parse_json_response(response.val)
        /\ UNCHANGED <<registryVars, envVars, moduleVars, ragOnDisk, instances, facades>>

\* BulkGenerator(facades[f], file_manager).analyze_requirement(requirement)
AnalyzeRequirement(f, requirement, answer) ==
    stage("analyze_requirement", f, <<requirement>>,
          requirement_prompt(requirement), answer)

\* BulkGenerator(facades[f], file_manager).generate_project_plan(requirement,
\* tech_stack)
GenerateProjectPlan(f, requirement, tech_stack, answer) ==
    stage("generate_project_plan", f, <<requirement, tech_stack>>,
          plan_prompt(requirement, tech_stack), answer)

DoAnalyzeRequirement ==
    \E f \in 1..Len(facades), requirement \in Requirements, answer \in StageAnswers :
        AnalyzeRequirement(f, requirement, answer)

DoGenerateProjectPlan ==
    \E f \in 1..Len(facades), requirement \in Requirements,
       tech_stack \in TechStacks, answer \in StageAnswers :
        GenerateProjectPlan(f, requirement, tech_stack, answer)

NextStages == DoConstructBulkFacade \/ DoAnalyzeRequirement \/ DoGenerateProjectPlan

SpecStages == InitBulk /\ [][NextStages]_vars

\* --------------------------------------------------------- file manager

\* os.getcwd() of the process that uses the file manager.
Cwd == <<"/", "work">>

\* The project roots file managers are constructed with: the configured
\* default ".", the working directory by its absolute name, and a temporary
\* directory elsewhere.
ProjectRoots == {<<".">>, Cwd, <<"/", "tmp", "/", "t">>}

\* The relative file names handed to a file manager.
FileNames ==
    { <<"test", ".", "txt">>, <<"sub", "/", "a", ".", "txt">>,
      <<"sub", "/", "b", ".", "txt">> }

Contents == {"Hello, World!", "content"}

\* The i-th piece of q is the path component "." (not the dot of a file
\* name).
IsDot(q, i) ==
    /\ q[i] = "."
    /\ i = 1 \/ q[i - 1] = "/"
    /\ i = Len(q) \/ q[i + 1] = "/"

RECURSIVE without_dots(_, _)
without_dots(q, i) ==
    IF i > Len(q) THEN <<>>
    ELSE IF IsDot(q, i) \/ (q[i] = "/" /\ i > 1 /\ IsDot(q, i - 1))
    THEN without_dots(q, i + 1)
    ELSE <<q[i]>> \o without_dots(q, i + 1)

\* The file or directory the operating system opens for the path p: p from
\* the working directory unless it is absolute, "." components and a
\* trailing separator dropped.
realpath(p) ==
    LET q == without_dots(path_join(Cwd, p), 1)
    IN  IF Len(q) > 1 /\ q[Len(q)] = "/" THEN SubSeq(q, 1, Len(q) - 1) ELSE q

\* FileManager(project_root).read_file(file_path) on the files d
read_file(d, project_root, file_path) ==
    LET opened == realpath(path_join(project_root, file_path))
    IN  IF opened \in DOMAIN d
        THEN [kind |-> "ok", val |-> d[opened]]
        ELSE [kind |-> "error", val |-> "FileNotFoundError"]

\* k is a file below the directory root.
Below(k, root) ==
    /\ Len(k) > Len(root) + 1
    /\ SubSeq(k, 1, Len(root)) = root
    /\ k[Len(root) + 1] = "/"

\* FileManager(project_root).list_files() on the files d, as a set: the
\* files that os.walk finds below project_root, by their relative paths.
list_files(d, project_root) ==
    LET root == realpath(project_root)
    IN  {SubSeq(k, Len(root) + 2, Len(k)) : k \in {k \in DOMAIN d : Below(k, root)}}

\* FileManager(project_root).write_file(file_path, content): the directory
\* part of file_path as given is created and file_path as given is opened,
\* so a relative file_path is a file below the working directory.
WriteFile(project_root, file_path, content) ==
    \E w \in {IF dirname(file_path) = <<>>
              THEN write_file(disk, file_path, content)
              ELSE write_file(disk, realpath(file_path), content)} :
        /\ disk' = w.disk
        /\ ret' = [op |-> "write_file", project_root |-> project_root,
                   file_path |-> file_path, content |-> content,
                   kind |-> IF w.ok THEN "ok" ELSE "error",
                   val |-> IF w.ok THEN None ELSE w.err]
        /\ UNCHANGED <<registryVars, env, dotenv, moduleVars, ragOnDisk,
                       instances, facades, lastCall>>

\* FileManager(project_root).read_file(file_path)
ReadFile(project_root, file_path) ==
    LET r == read_file(disk, project_root, file_path)
    IN  /\ ret' = [op |-> "read_file", project_root |-> project_root,
                   file_path |-> file_path, kind |-> r.kind, val |-> r.val]
        /\ UNCHANGED <<registryVars, envVars, moduleVars, ragOnDisk,
                       instances, facades, lastCall>>

\* FileManager(project_root).list_files()
ListFiles(project_root) ==
    /\ ret' = [op |-> "list_files", project_root |-> project_root,
               kind |-> "ok", files |-> list_files(disk, project_root)]
    /\ UNCHANGED <<registryVars, envVars, moduleVars, ragOnDisk,
                   instances, facades, lastCall>>

DoWriteFile ==
    \E project_root \in ProjectRoots, file_path \in FileNames, content \in Contents :
        WriteFile(project_root, file_path, content)

DoReadFile ==
    \E project_root \in ProjectRoots, file_path \in FileNames :
        ReadFile(project_root, file_path)

DoListFiles == \E project_root \in ProjectRoots : ListFiles(project_root)

NextFiles == DoWriteFile \/ DoReadFile \/ DoListFiles

InitFiles == Init /\ env = {} /\ dotenv = Keys /\ ragOnDisk = FALSE

SpecFiles == InitFiles /\ [][NextFiles]_vars

\* --------------------------------------------------------- code analysis

\* Most statements in the body of an analysed module.
MaxStmts == 2

\* Syntax tree nodes, as ast.parse builds them.
Pass == [type |-> "Pass"]

FunctionDef(name, body) == [type |-> "FunctionDef", name |-> name, body |-> body]

AsyncFunctionDef(name, body) ==
    [type |-> "AsyncFunctionDef", name |-> name, body |-> body]

ClassDef(name, body) == [type |-> "ClassDef", name |-> name, body |-> body]

\* import names[1], names[2], ...
Import(names) == [type |-> "Import", names |-> names]

\* from module import names[1], names[2], ...
ImportFromNode(module, names) ==
    [type |-> "ImportFrom", module |-> module, names |-> names]

Module(body) == [type |-> "Module", body |-> body]

\* The statements of the analysed modules.
Stmts ==
    { Import(<<"math">>),
      Import(<<"os", "sys">>),
      ImportFromNode("math", <<"sqrt", "pi">>),
      ImportFromNode("os", <<"path">>),
      FunctionDef("factorial", <<Pass>>),
      FunctionDef("main", <<Import(<<"json">>), Pass>>),
      FunctionDef("outer", <<FunctionDef("inner", <<Pass>>)>>),
      AsyncFunctionDef("fetch", <<Pass>>),
      ClassDef("Calculator", <<FunctionDef("add", <<Pass>>)>>),
      ClassDef("Shapes", <<ClassDef("Circle", <<Pass>>), FunctionDef("area", <<Pass>>)>>) }

\* What ast.parse(code) gives for the parseable sources.
Trees == {Module(body) : body \in SeqsUpTo(Stmts, MaxStmts)}

\* ast.iter_child_nodes(node), as far as the children can be or contain
\* definitions and imports.
iter_child_nodes(node) ==
    IF node.type \in {"Module", "FunctionDef", "AsyncFunctionDef", "ClassDef"}
    THEN node.body
    ELSE <<>>

\* ast.walk from the queue todo: the first node is taken, its children are
\* put at the end of the queue, and the node is yielded.
RECURSIVE walk_from(_)
walk_from(todo) ==
    IF todo = <<>> THEN <<>>
    ELSE <<Head(todo)>> \o walk_from(Tail(todo) \o iter_child_nodes(Head(todo)))

\* ast.walk(tree)
walk(tree) == walk_from(<<tree>>)

NamesOf(nodes) == [i \in 1..Len(nodes) |-> nodes[i].name]

\* CodeAnalyzer._get_functions(tree)
get_functions(tree) ==
    NamesOf(SelectSeq(walk(tree), LAMBDA node : node.type = "FunctionDef"))

\* CodeAnalyzer._get_classes(tree)
get_classes(tree) ==
    NamesOf(SelectSeq(walk(tree), LAMBDA node : node.type = "ClassDef"))

\* The loop of _get_imports over the nodes that ast.walk yields.
RECURSIVE imports_of(_)
imports_of(nodes) ==
    IF nodes = <<>> THEN <<>>
    ELSE LET node == Head(nodes)
         IN  (CASE node.type = "Import" -> node.names
                [] node.type = "ImportFrom" -> <<node.module \o "." \o node.names[1]>>
                [] OTHER -> <<>>)
             \o imports_of(Tail(nodes))

\* CodeAnalyzer._get_imports(tree)
get_imports(tree) == imports_of(walk(tree))

\* CodeAnalyzer().analyze_python(code), tree being ast.parse(code)
AnalyzePython(tree) ==
    /\ ret' = [op |-> "analyze_python", tree |-> tree,
               functions |-> get_functions(tree),
               classes |-> get_classes(tree),
               imports |-> get_imports(tree)]
    /\ UNCHANGED <<registryVars, envVars, moduleVars, ragOnDisk,
                   instances, facades, lastCall>>

DoAnalyzePython == \E tree \in Trees : AnalyzePython(tree)

NextAnalysis == DoAnalyzePython

InitAnalysis == Init /\ env = {} /\ dotenv = Keys /\ ragOnDisk = FALSE

SpecAnalysis == InitAnalysis /\ [][NextAnalysis]_vars

\* ------------------------------------------- the adapters: dataset requests

Adapters == {"cli", "api", "web"}

\* AIIntegration(provider, model) as a request handler constructs it for a
\* request without a model option (model is None in every adapter): the
\* facade object, local to the request, or the error of its constructor.
request_facade(adapter, provider) ==
    LET r == get_provider(provider, env)
    IN  IF r.ok
        THEN [ok |-> TRUE,
              facade |-> [provider |-> r.inst,
                          model_name |-> bound_model(None, r.inst.cls),
                          vectorstore |-> load_rag(ragOnDisk),
                          dataset |-> NoDataset]]
        ELSE [ok |-> FALSE, err |-> "ValueError",
              msg |-> "Failed to initialize provider"]

\* What an adapter answers for an exception that leaves the request's try
\* block: the command line prints "Error: ..." for a ValueError and "An
\* unexpected error occurred: ..." otherwise and exits normally; the HTTP
\* adapters answer 400 for a ValueError and 500 otherwise.  The API's
\* get_ai_integration turns a constructor error into an HTTPException, which
\* the handler's `except Exception` answers with 500.
error_status(adapter, at, exc) ==
    CASE adapter = "cli" ->
           IF exc = "ValueError" THEN "Error" ELSE "An unexpected error occurred"
      [] adapter = "api" ->
           IF at = "init" THEN "500"
           ELSE IF exc = "IndexError" THEN "404"
           ELSE IF exc = "ValueError" THEN "400" ELSE "500"
      [] adapter = "web" ->
           IF exc = "IndexError" THEN "404"
           ELSE IF exc = "ValueError" THEN "400" ELSE "500"

ok_status(adapter) == IF adapter = "cli" THEN "echo" ELSE "200"

\* The load-dataset request of an adapter: a facade is constructed for the
\* request, load_dataset runs on it, and the facade is dropped with the
\* request.
RequestLoadDataset(adapter, provider, dataset_path) ==
    LET c == request_facade(adapter, provider)
        r == load_dataset(dataset_path)
    IN  /\ ConfigLoads(env, dotenv)
        /\ ret' = IF ~c.ok
                  THEN [op |-> "request.load_dataset", adapter |-> adapter,
                        provider |-> provider, arg |-> dataset_path,
                        stage |-> "init", kind |-> "error",
                        status |-> error_status(adapter, "init", c.err),
                        msg |-> c.msg]
                  ELSE IF ~r.ok
                  THEN [op |-> "request.load_dataset", adapter |-> adapter,
                        provider |-> provider, arg |-> dataset_path,
                        stage |-> "load", kind |-> "error",
                        status |-> error_status(adapter, "load", "ValueError"),
                        msg |-> "Failed to load dataset: " \o r.err]
                  ELSE [op |-> "request.load_dataset", adapter |-> adapter,
                        provider |-> provider, arg |-> dataset_path,
                        stage |-> "load", kind |-> "ok",
                        status |-> ok_status(adapter),
                        msg |-> "Dataset loaded successfully",
                        shape |-> Len(r.frame.rows)]
        /\ UNCHANGED <<registryVars, envVars, moduleVars, ragOnDisk,
                       instances, facades, lastCall>>

\* The row index of a request: absent, or an integer.
NoIndex == [given |-> FALSE]

RowIndexArgs == {NoIndex} \cup {[given |-> TRUE, val |-> i] : i \in RowArgs}

\* facade.analyze_row(row, iterations) on the facade of a request, row
\* being an integer: how far it got, the number of provider calls made and
\* what it returned or raised.
request_analyze_row(facade, row, iterations, answers) ==
    IF facade.dataset = NoDataset
    THEN [stage |-> "guard", n |-> 0, kind |-> "error", val |-> "ValueError",
          msg |-> "No dataset loaded. Please load a dataset first."]
    ELSE IF out_of_bounds(row, Len(facade.dataset.rows))
    THEN [stage |-> "guard", n |-> 0, kind |-> "error", val |-> "ValueError",
          msg |-> "Row index " \o ToString(row) \o " is out of bounds."]
    ELSE [stage |-> "generate"] @@ analyze_loop(1, iterations, answers, <<>>)

\* The body of the try block of analyze_dataset_row after the facade is
\* constructed: without a row index, a random row is taken from
\* facade.dataset, which raises AttributeError when that is None and
\* otherwise gives a row that analyze_row takes as it is.
request_row_analysis(facade, row_index, iterations, answers) ==
    IF row_index.given
    THEN request_analyze_row(facade, row_index.val, iterations, answers)
    ELSE IF facade.dataset = NoDataset
    THEN [stage |-> "row", n |-> 0, kind |-> "error", val |-> "AttributeError",
          msg |-> "'NoneType' object has no attribute 'sample'"]
    ELSE [stage |-> "generate"] @@ analyze_loop(1, iterations, answers, <<>>)

\* The analyze-dataset-row request of an adapter; answers[k] is how the
\* k-th provider call would end.
RequestAnalyzeDatasetRow(adapter, provider, row_index, iterations, answers) ==
    LET c == request_facade(adapter, provider)
    IN  /\ ConfigLoads(env, dotenv)
        /\ IF ~c.ok
           THEN ret' = [op |-> "request.analyze_dataset_row", adapter |-> adapter,
                        provider |-> provider, row_index |-> row_index,
                        iterations |-> iterations,
                        stage |-> "init", n |-> 0, kind |-> "error",
                        status |-> error_status(adapter, "init", c.err),
                        msg |-> c.msg]
           ELSE \E out \in {request_row_analysis(c.facade, row_index, iterations,
                                                 answers)} :
                  ret' = [op |-> "request.analyze_dataset_row", adapter |-> adapter,
                          provider |-> provider, row_index |-> row_index,
                          iterations |-> iterations,
                          stage |-> out.stage, n |-> out.n, kind |-> out.kind,
                          status |-> IF out.kind = "error"
                                     THEN error_status(adapter, out.stage, out.val)
                                     ELSE ok_status(adapter),
                          msg |-> out.msg]
        /\ UNCHANGED <<registryVars, envVars, moduleVars, ragOnDisk,
                       instances, facades, lastCall>>

RequestProviders == {"ollama", "groq"}

DoRequestLoadDataset ==
    \E adapter \in Adapters, provider \in RequestProviders,
       dataset_path \in DatasetPaths :
        RequestLoadDataset(adapter, provider, dataset_path)

DoRequestAnalyzeDatasetRow ==
    \E adapter \in Adapters, provider \in RequestProviders,
       row_index \in RowIndexArgs, iterations \in 0..MaxIterations :
        \E answers \in AnswerLists(iterations) :
            RequestAnalyzeDatasetRow(adapter, provider, row_index, iterations,
                                     answers)

NextAdapters == DoRequestLoadDataset \/ DoRequestAnalyzeDatasetRow

\* The configuration file provides the keys; the process environment has
\* them or not.
InitAdapters == Init /\ env \in {{}, Keys} /\ dotenv = Keys /\ ragOnDisk = FALSE

SpecAdapters == InitAdapters /\ [][NextAdapters]_vars

\* ------------------------------- the feature manager: one process a command

\* The interpreter state in which feature_manager.py starts a command: it
\* imports only click, importlib and core.feature_registry, so no feature
\* module is loaded and FeatureRegistry._features is the empty dict of the
\* class body.  cli() exits the process when the command returns.
FreshProcess ==
    [mods |-> {}, feats |-> <<>>, ins |-> <<>>, last |-> None, err |-> None]

\* What list_features prints below "Enabled features:" for the registry d:
\* each feature and its dependencies, in registry order.
listing(d) ==
    LET all == get_all_features(d)
    IN  [i \in 1..Len(all) |->
            [feature |-> all[i],
             dependencies |-> get_feature_dependencies(d, all[i])]]

\* `python feature_manager.py add_feature FEATURE_NAME`: a new process runs
\* add_feature; the registry variables show the process as the command
\* ends.
InvokeAddFeature(feature_name) ==
    \E st \in {ImportModule(feature_name, FreshProcess)} :
        /\ sysModules' = st.mods
        /\ features' = st.feats
        /\ insertOrder' = st.ins
        /\ lastRegistered' = st.last
        /\ loadResult' = IF feature_name \in Modules
                          THEN [m \in Modules |->
                                   IF m = feature_name THEN ResultOf(st)
                                   ELSE "unloaded"]
                          ELSE [m \in Modules |-> "unloaded"]
        /\ echo' = IF st.err = None THEN "added"
                    ELSE IF st.err \in ImportErrors THEN "not_found"
                    ELSE "uncaught"
        /\ ret' = [op |-> "invoke.add_feature", arg |-> feature_name,
                   kind |-> IF st.err = None THEN "ok" ELSE "error",
                   echo |-> echo']
        /\ UNCHANGED <<envVars, ragOnDisk, instances, facades, lastCall>>

\* `python feature_manager.py remove_feature FEATURE_NAME`, with the
\* operator's answer to the confirmation prompt: a new process runs
\* remove_feature.
InvokeRemoveFeature(feature_name, confirm) ==
    \E d \in {FreshProcess.feats} :
        /\ IF ~is_feature_enabled(d, feature_name)
           THEN /\ echo' = "not_enabled"
                /\ features' = d
           ELSE IF get_dependent_features(d, feature_name) # <<>> /\ ~confirm
           THEN /\ echo' = "declined"
                /\ features' = d
           ELSE /\ echo' = "removed"
                /\ features' = unregister(d, feature_name)
        /\ insertOrder' = FreshProcess.ins
        /\ lastRegistered' = None
        /\ sysModules' = FreshProcess.mods
        /\ loadResult' = [m \in Modules |-> "unloaded"]
        /\ ret' = [op |-> "invoke.remove_feature", arg |-> feature_name,
                   confirm |-> confirm, kind |-> "ok", echo |-> echo']
        /\ UNCHANGED <<envVars, ragOnDisk, instances, facades, lastCall>>

\* `python feature_manager.py list_features`: a new process runs
\* list_features.
InvokeListFeatures ==
    \E d \in {FreshProcess.feats} :
        /\ features' = d
        /\ insertOrder' = FreshProcess.ins
        /\ lastRegistered' = None
        /\ sysModules' = FreshProcess.mods
        /\ loadResult' = [m \in Modules |-> "unloaded"]
        /\ echo' = "listed"
        /\ ret' = [op |-> "invoke.list_features", kind |-> "ok",
                   listing |-> listing(d), echo |-> echo']
        /\ UNCHANGED <<envVars, ragOnDisk, instances, facades, lastCall>>

FeatureArgs == Modules \cup {"no_such_feature"}

DoInvokeAddFeature == \E feature_name \in FeatureArgs : InvokeAddFeature(feature_name)

DoInvokeRemoveFeature ==
    \E feature_name \in FeatureArgs, confirm \in BOOLEAN :
        InvokeRemoveFeature(feature_name, confirm)

DoInvokeListFeatures == InvokeListFeatures

NextManager == DoInvokeAddFeature \/ DoInvokeRemoveFeature \/ DoInvokeListFeatures

SpecManager == InitFeatures /\ [][NextManager]_vars

Next ==
    \/ NextRegistry
    \/ NextFeatures
    \/ NextProviders
    \/ NextGenerate
    \/ NextDataset
    \/ NextRag
    \/ NextBulk
    \/ NextStages
    \/ NextFiles
    \/ NextAnalysis
    \/ NextAdapters
    \/ NextManager

Spec == Init /\ [][Next]_vars

\* ------------------------------------------------------------ properties

NoDuplicates(s) == \A i, j \in 1..Len(s) : s[i] = s[j] => i = j

Registered(d) == {n \in Names : is_feature_enabled(d, n)}

\* The entry of every name but n reads the same in d and in e.
OthersUnchanged(d, e, n) ==
    \A m \in Names \ {n} :
        /\ is_feature_enabled(e, m) = is_feature_enabled(d, m)
        /\ get_feature(e, m) = get_feature(d, m)
        /\ get_feature_dependencies(e, m) = get_feature_dependencies(d, m)

\* C1: in every reachable registry, for every name f, get_dependent_features(f)
\* lists exactly the registered names whose dependency list contains f, each
\* of them once.
C1_DependentsExact ==
    \A f \in Names \cup {"no_such_feature"} :
        LET r == get_dependent_features(features, f)
        IN  /\ NoDuplicates(r)
            /\ Range(r) = {n \in Registered(features) :
                              f \in Range(get_feature_dependencies(features, n))}

\* C1 witness: three entries, two of which depend on the same feature.
C1_Witness ==
    /\ Len(features) = 3
    /\ Len(get_dependent_features(features, "ai_integration")) >= 2

\* C2: unregistering a name from any reachable registry removes exactly the
\* entry of the name: the name is no longer enabled nor listed, every other
\* entry keeps its type and its dependency list (a former dependent still
\* names the removed feature) and the other names keep their order;
\* unregistering an absent name leaves the registry unchanged.
C2_UnregisterFrame ==
    \A n \in Names \cup {"no_such_feature"} :
        \A after \in {unregister(features, n)} :
            /\ ~is_feature_enabled(after, n)
            /\ n \notin Range(get_all_features(after))
            /\ OthersUnchanged(features, after, n)
            /\ get_all_features(after) =
                  SelectSeq(get_all_features(features), LAMBDA m : m # n)
            /\ \A d \in Range(get_dependent_features(features, n)) \ {n} :
                  n \in Range(get_feature_dependencies(after, d))
            /\ ~is_feature_enabled(features, n) => after = features

\* C2 witness: a feature was removed and a registered feature still names a
\* feature that is not registered.
C2_Witness ==
    /\ echo = "removed"
    /\ \E d \in Registered(features) :
         \E x \in Range(get_feature_dependencies(features, d)) :
            ~is_feature_enabled(features, x)

\* C3: registering (name, type, dependencies) in any reachable registry binds
\* the name to that type and that dependency list (an omitted list reads
\* back empty) whatever was bound before, leaves every other entry alone, and
\* registering the same again changes nothing; the dependencies of an
\* unregistered name are the empty list.
C3_RegisterLastWins ==
    /\ \A n \in Names, c \in Classes, a \in DepArgs :
          \A after \in {register(features, n, c, a)} :
              /\ get_feature(after, n) = c
              /\ get_feature_dependencies(after, n) =
                    (IF a.tag = "none" THEN <<>> ELSE a.val)
              /\ OthersUnchanged(features, after, n)
              /\ register(after, n, c, a) = after
    /\ \A n \in Names \cup {"no_such_feature"} :
          ~is_feature_enabled(features, n) =>
             get_feature_dependencies(features, n) = <<>>

\* C3 witness: the last operation registered a name that was present before
\* (it is not the last inserted), with a dependency list.
C3_Witness ==
    /\ lastRegistered # None
    /\ Len(insertOrder) >= 2
    /\ insertOrder[Len(insertOrder)] # lastRegistered
    /\ get_feature_dependencies(features, lastRegistered) # <<>>

\* C4 as stated: get_all_features lists the registered names by the
\* registration that bound each name's current entry, so the name that the
\* last operation registered, whose entry is the newest, comes last.
C4_Original ==
    lastRegistered # None =>
        /\ get_all_features(features) # <<>>
        /\ get_all_features(features)[Len(features)] = lastRegistered

\* C4 amended: get_all_features lists exactly the registered names, each once,
\* by the registration that inserted the name: a registration of a present
\* name keeps the name's position, a registration of an absent name (never
\* registered, or unregistered since) puts it last.
C4_InsertionOrder ==
    /\ get_all_features(features) = insertOrder
    /\ NoDuplicates(get_all_features(features))
    /\ Range(get_all_features(features)) = Registered(features)

\* C4 witness: three registered names, the first of which the last operation
\* registered again.
C4_Witness ==
    /\ Len(features) = 3
    /\ lastRegistered = get_all_features(features)[1]

\* The dependency lists the feature modules declare.
DeclaredDependencies(m) ==
    CASE m = "bulk_generation" -> <<"ai_integration", "file_management">>
      [] m = "code_analysis" -> <<"ai_integration">>
      [] OTHER -> <<>>

\* C5: loading a feature module never fails because of the registration
\* itself, and once the five feature modules have been loaded each of the
\* five names is enabled with the dependencies its module declares.
C5_Original ==
    /\ \A m \in Modules : loadResult[m] # "AttributeError"
    /\ (\A m \in Modules : loadResult[m] # "unloaded") =>
          \A m \in Modules :
             /\ is_feature_enabled(features, m)
             /\ get_feature_dependencies(features, m) = DeclaredDependencies(m)

\* The providers that need a credential.
NeedsKey == {"GroqProvider", "OpenRouterProvider"}

\* C6: get_provider of a name outside the table raises the unknown-provider
\* error and constructs nothing; AIIntegration with such a name raises a
\* ValueError that wraps that cause and constructs neither a provider nor a
\* facade; a resolution of a name of the table that returns, returns a new
\* instance of the table's class and leaves the earlier instances alone.
C6_LocatorFailsFast ==
    [][/\ ret'.op = "get_provider" =>
            IF ret'.name \notin DOMAIN PROVIDERS
            THEN /\ ret'.kind = "error"
                 /\ ret'.val = "ValueError"
                 /\ ret'.msg = "Unknown provider"
                 /\ instances' = instances
            ELSE ret'.kind = "provider" =>
                   /\ Len(instances') = Len(instances) + 1
                   /\ ret'.val \notin 1..Len(instances)
                   /\ instances'[ret'.val].cls = PROVIDERS[ret'.name]
                   /\ SubSeq(instances', 1, Len(instances)) = instances
       /\ (ret'.op = "AIIntegration" /\ ret'.name \notin DOMAIN PROVIDERS) =>
            /\ ret'.kind = "error"
            /\ ret'.val = "ValueError"
            /\ ret'.msg = "Failed to initialize provider"
            /\ ret'.cause = "Unknown provider"
            /\ instances' = instances
            /\ facades' = facades]_vars

\* C6 witness: a facade construction failed on an unknown provider name after
\* two resolutions of one name gave two instances.
C6_Witness ==
    /\ ret.op = "AIIntegration"
    /\ ret.kind = "error"
    /\ ret.val = "ValueError"
    /\ ret.msg = "Failed to initialize provider"
    /\ ret.cause = "Unknown provider"
    /\ Len(instances) = 2
    /\ instances[1].cls = instances[2].cls

ValidConfig(c) ==
    /\ DOMAIN c = {"max_tokens", "temperature"}
    /\ c["max_tokens"] > 0
    /\ c["temperature"] \in 0..10

\* C7: for each of the three providers the default model is one of the
\* available models and every available model has a configuration with
\* max_tokens > 0 and a temperature in [0, 1]; a configuration that
\* get_model_config returned is such a configuration or the empty one.
C7_CatalogConsistent ==
    /\ \A cls \in ProviderClasses :
         /\ default_model(cls) \in Range(available_models(cls))
         /\ \A m \in Range(available_models(cls)) :
              ValidConfig(get_model_config(cls, m))
    /\ ret.kind = "config" => (ret.val = EmptyConfig \/ ValidConfig(ret.val))

\* C7 witness: a cloud-completions provider exists and get_model_config has
\* returned the configuration of a catalog model.
C7_Witness ==
    /\ \E i \in 1..Len(instances) : instances[i].cls = "GroqProvider"
    /\ ret.kind = "config"
    /\ ret.val # EmptyConfig

\* C8: get_model_config of a model name outside the provider's catalog returns
\* the empty configuration (it raises nothing), sends no request and changes
\* no provider or facade.
C8_UnknownModelEmptyConfig ==
    [][ret'.op = "get_model_config" =>
        /\ ret'.model_name \notin Range(available_models(ret'.cls)) =>
              (ret'.kind = "config" /\ ret'.val = EmptyConfig)
        /\ lastCall' = lastCall
        /\ instances' = instances
        /\ facades' = facades]_vars

\* C8 witness: get_model_config has returned the empty configuration for a
\* name of no catalog after a request had been sent.
C8_Witness ==
    /\ ret.op = "get_model_config"
    /\ ret.model_name = "unknown-model"
    /\ ret.val = EmptyConfig
    /\ lastCall.kind = "call"

\* C9: every generate_code call with a None model sends a request that names
\* the provider's default model.
C9_Original ==
    (lastCall.kind = "call" /\ lastCall.model_name = None) =>
        lastCall.request.model = default_model(instances[lastCall.instance].cls)

\* C10: no instance of a provider that needs a credential exists without one,
\* and no request of such a provider is sent without one.
C10_Original ==
    /\ \A i \in 1..Len(instances) :
         instances[i].cls \in NeedsKey => instances[i].api_key # None
    /\ (lastCall.kind = "call" /\ instances[lastCall.instance].cls \in NeedsKey) =>
           lastCall.request.authorization # None

\* C11: A missing credential is fatal only to the provider that needs it:
\* with both API keys absent from the process environment and from the
\* configuration file, the AI integration facade's module can still be
\* loaded (and with it a facade bound to the local provider constructed and
\* used), and the registry is unaffected.  Stated for the load: an import of
\* features.ai_integration that was requested with both keys absent ended
\* well and registered the feature.
C11_Original ==
    (env = {} /\ dotenv = {} /\ loadResult["ai_integration"] # "unloaded") =>
        /\ loadResult["ai_integration"] = "ok"
        /\ is_feature_enabled(features, "ai_integration")

\* The provider class behind facade f.
FacadeClass(f) == instances[facades[f].provider].cls

HasErrorMessage(response) ==
    /\ response.json.type = "object"
    /\ "error" \in DOMAIN response.json.val
    /\ response.json.val.error.type = "object"
    /\ "message" \in DOMAIN response.json.val.error.val

\* C12: A facade constructed with a null model is bound to its provider's
\* default_model, and to the given model otherwise, and keeps its provider
\* and its model for its whole lifetime; generate_code(prompt) and
\* explain_code(code) each make exactly one provider generate call, on the
\* facade's provider, with the bound model and, respectively, the prompt
\* itself and "Explain the following code:\n\n" followed by the code, and
\* return the provider's text unchanged.
C12_FacadeBoundModel ==
    [][ /\ \A f \in 1..Len(facades) :
             /\ f <= Len(facades')
             /\ facades'[f].model_name = facades[f].model_name
             /\ facades'[f].provider = facades[f].provider
        /\ (ret'.op = "AIIntegration" /\ ret'.kind = "facade") =>
             /\ ret'.val = Len(facades')
             /\ facades'[ret'.val].model_name # None
             /\ facades'[ret'.val].model_name =
                  IF ret'.model_name = None
                  THEN default_model(PROVIDERS[ret'.name])
                  ELSE ret'.model_name
        /\ ret'.op \in {"facade.generate_code", "facade.explain_code"} =>
             /\ Len(ret'.calls) = 1
             /\ ret'.calls[1].instance = facades[ret'.facade].provider
             /\ ret'.calls[1].model_name = facades[ret'.facade].model_name
             /\ ret'.calls[1].prompt =
                  IF ret'.op = "facade.generate_code" THEN ret'.arg
                  ELSE "Explain the following code:\n\n" \o ret'.arg
             /\ lastCall'.request.model = facades[ret'.facade].model_name
             /\ lastCall'.request.prompt = ret'.calls[1].prompt
             /\ ret'.answers[1].kind = "text" =>
                  ret'.kind = "text" /\ ret'.val = ret'.answers[1].val
      ]_vars

\* explain_code has returned the backend's text on a facade bound to its
\* provider's default model, next to a facade bound to another model.
C12_Witness ==
    /\ ret.op = "facade.explain_code"
    /\ ret.kind = "text"
    /\ ret.val \in Texts
    /\ facades[ret.facade].model_name = default_model(FacadeClass(ret.facade))
    /\ \E g \in 1..Len(facades) : facades[g].model_name = "unknown-model"

\* C13: generate_code wraps every upstream failure into one error kind:
\* whatever the provider call raises (a non-success status with any body,
\* or any other exception), the facade raises ValueError with a message,
\* after one provider call.
C13_Original ==
    (ret.op \in {"facade.generate_code", "facade.explain_code"}
       /\ ret.kind = "error") =>
        /\ ret.val = "ValueError"
        /\ ret.msg # ""
        /\ Len(ret.calls) = 1

\* C14: When the backend answers with a non-success status, the raised
\* error's message contains the body's JSON field error.message when that
\* field is present, and in every other case the status code and the raw
\* body.
C14_Original ==
    (ret.op \in {"facade.generate_code", "facade.explain_code"}
       /\ ret.answers[1].kind = "status") =>
        LET response == ret.answers[1].response
        IN  /\ ret.kind = "error"
            /\ IF HasErrorMessage(response)
               THEN response.json.val.error.val.message.val \in ret.parts
               ELSE /\ ToString(response.status_code) \in ret.parts
                    /\ response.text \in ret.parts

\* The texts joined by blank lines.
RECURSIVE BlankLineJoined(_)
BlankLineJoined(texts) ==
    IF Len(texts) = 0 THEN ""
    ELSE IF Len(texts) = 1 THEN texts[1]
    ELSE BlankLineJoined(SubSeq(texts, 1, Len(texts) - 1))
             \o "\n\n" \o texts[Len(texts)]

\* The analyze_row that ret reports had a dataset and an index inside it.
AnalyzedInRange ==
    /\ ret.op = "facade.analyze_row"
    /\ facades[ret.facade].dataset # NoDataset
    /\ 0 <= ret.row
    /\ ret.row < Len(facades[ret.facade].dataset.rows)

\* C15: With a dataset of length L loaded, analyze_row(i, n) for 0 <= i < L
\* and n >= 0 performs exactly n provider calls, each with the bound model
\* and the same analysis prompt built from row i, and returns the n outputs
\* in call order joined by a blank line; if call k fails, the operation
\* raises after exactly k calls and returns nothing.
C15_AnalyzeRowCalls ==
    AnalyzedInRange =>
        LET n == ret.iterations
            made == Len(ret.calls)
            row_data == facades[ret.facade].dataset.rows[ret.row + 1]
        IN  /\ Len(ret.answers) = made
            /\ \A k \in 1..made :
                 /\ ret.calls[k].instance = facades[ret.facade].provider
                 /\ ret.calls[k].model_name = facades[ret.facade].model_name
                 /\ ret.calls[k].prompt =
                      "Analyze the following data:\n\n" \o row_data
                          \o "\n\nProvide insights and potential next steps."
            /\ \A k \in 1..(made - 1) : ret.answers[k].kind = "text"
            /\ IF \A k \in 1..made : ret.answers[k].kind = "text"
               THEN /\ made = n
                    /\ ret.kind = "text"
                    /\ ret.val = BlankLineJoined([k \in 1..n |-> ret.answers[k].val])
               ELSE /\ made <= n
                    /\ ret.kind = "error"

\* Two iterations on the second row returned two different outputs in call
\* order.
C15_Witness ==
    /\ AnalyzedInRange
    /\ ret.row = 1
    /\ ret.iterations = 2
    /\ ret.kind = "text"
    /\ ret.val = "text two\n\ntext one"
    /\ Len(ret.calls) = 2

\* C16: analyze_row with an integer index outside the loaded dataset fails
\* with the out-of-range error, and analyze_row with no dataset loaded fails
\* as well; in both cases no provider call is made and the facade's state is
\* unchanged.
C16_OutOfRangeFails ==
    [][ (ret'.op = "facade.analyze_row" /\ ~AnalyzedInRange') =>
          /\ ret'.kind = "error"
          /\ ret'.val = "ValueError"
          /\ ret'.calls = <<>>
          /\ facades[ret'.facade].dataset # NoDataset =>
               ret'.msg = "Row index " \o ToString(ret'.row) \o " is out of bounds."
          /\ facades[ret'.facade].dataset = NoDataset =>
               ret'.msg = "No dataset loaded. Please load a dataset first."
          /\ facades' = facades
          /\ instances' = instances
          /\ lastCall' = lastCall
      ]_vars

\* analyze_row was refused for the index equal to the row count of the
\* loaded dataset, after an earlier analysis had made a provider call.
C16_Witness ==
    /\ ret.op = "facade.analyze_row"
    /\ facades[ret.facade].dataset # NoDataset
    /\ ret.row = Len(facades[ret.facade].dataset.rows)
    /\ ret.kind = "error"
    /\ ret.calls = <<>>
    /\ lastCall.kind = "call"

\* The path ends in a dot and csv or json, in any letter case, after a file
\* name.
SupportedExtension(p) ==
    /\ Len(p) >= 3
    /\ p[Len(p)] \in {"csv", "CSV", "json", "Json"}
    /\ p[Len(p) - 1] = "."
    /\ p[Len(p) - 2] \notin {".", "/"}

\* The file at p exists and its content is of the format its extension names.
Loadable(p) ==
    /\ p \in DOMAIN DataFiles
    /\ \/ p[Len(p)] \in {"csv", "CSV"} /\ DataFiles[p].format = "csv"
       \/ p[Len(p)] \in {"json", "Json"} /\ DataFiles[p].format = "json"

\* C17: load_dataset dispatches on the file extension only: a loadable file
\* whose extension is .csv or .json in any letter case becomes the facade's
\* dataset, with the file's data row count; any other extension fails with
\* the unsupported-format error whatever the file holds; a failed load
\* leaves the previously loaded dataset, or its absence, unchanged.
C17_LoadDispatch ==
    [][ ret'.op = "facade.load_dataset" =>
          LET p == ret'.arg
              f == ret'.facade
          IN  /\ (SupportedExtension(p) /\ Loadable(p)) =>
                   /\ ret'.kind = "text"
                   /\ facades'[f].dataset.rows = DataFiles[p].rows
                   /\ ret'.shape = Len(DataFiles[p].rows)
              /\ ~SupportedExtension(p) =>
                   /\ ret'.kind = "error"
                   /\ ret'.cause = "Unsupported file format"
              /\ ret'.kind = "error" =>
                   /\ ret'.val = "ValueError"
                   /\ facades' = facades
              /\ \A g \in 1..Len(facades) :
                   /\ g # f => facades'[g] = facades[g]
                   /\ facades'[g].model_name = facades[g].model_name
                   /\ facades'[g].vectorstore = facades[g].vectorstore
              /\ lastCall' = lastCall
      ]_vars

\* A load of an existing file with another extension failed on a facade
\* that holds the dataset of an earlier load.
C17_Witness ==
    /\ ret.op = "facade.load_dataset"
    /\ ret.arg = <<"data", ".", "xml">>
    /\ ret.kind = "error"
    /\ ret.cause = "Unsupported file format"
    /\ facades[ret.facade].dataset # NoDataset
    /\ Len(facades[ret.facade].dataset.rows) = MaxRows

NotReady(r) ==
    /\ r.kind = "error"
    /\ r.msg = "RAG has not been created yet. Please create a RAG first."

\* What C18 says of the facades' indexes apart from failed builds: a new
\* facade holds an index exactly when the storage path exists; query_rag
\* fails with the not-ready error, without a provider call, exactly when
\* the facade holds no index; a build that succeeds gives the facade an
\* index and persists it; nothing else changes an index, and a persisted
\* index stays.
IndexSteps ==
    /\ (ret'.op = "AIIntegration" /\ ret'.kind = "facade") =>
         /\ Len(facades') = Len(facades) + 1
         /\ (facades'[ret'.val].vectorstore # None) <=> ragOnDisk
    /\ ret'.op = "facade.query_rag" =>
         /\ NotReady(ret') <=> facades[ret'.facade].vectorstore = None
         /\ NotReady(ret') <=> ret'.calls = <<>>
         /\ facades' = facades
    /\ (ret'.op = "facade.create_rag" /\ ret'.kind = "text") =>
         /\ facades'[ret'.facade].vectorstore # None
         /\ ragOnDisk'
    /\ \A g \in 1..Len(facades) :
         (ret'.op # "facade.create_rag" \/ ret'.facade # g) =>
             facades'[g].vectorstore = facades[g].vectorstore
    /\ ragOnDisk => ragOnDisk'

JoinedPath(output_dir, file_path) ==
    IF file_path[1] = "/" THEN file_path
    ELSE IF output_dir = <<>> THEN file_path
    ELSE output_dir \o <<"/">> \o file_path

\* In run r of create_project the events 2j-1 and 2j are the content call
\* for the j-th file of the plan, with the bound model, and the write of
\* the text it generated to output_dir joined with the file's path.
GeneratedThenWritten(r, j) ==
    /\ r.trace[2 * j - 1].event = "generate"
    /\ r.trace[2 * j - 1].file = j
    /\ r.trace[2 * j - 1].kind = "text"
    /\ r.trace[2 * j - 1].call.model_name = facades[r.facade].model_name
    /\ r.trace[2 * j - 1].call.prompt =
         "Generate the content for the following file:\n\nFile: "
             \o join("", r.plan[j]) \o "\nDescription: " \o DescriptionOf(r.plan[j])
             \o "\n\nProvide only the file content in your response."
    /\ r.trace[2 * j].event = "write"
    /\ r.trace[2 * j].file = j
    /\ r.trace[2 * j].path = JoinedPath(r.output_dir, r.plan[j])
    /\ r.trace[2 * j].content = r.answers[j].val

\* C19: create_project(plan, output_dir) on a run where every content call
\* succeeds makes, for each file of plan.files in plan order, exactly one
\* content call followed by exactly one write of the generated text to
\* output_dir joined with the file's path; the number of writes equals the
\* number of files.
C19_Original ==
    (/\ ret.op = "create_project"
     /\ \A i \in 1..Len(ret.trace) :
            ret.trace[i].event = "generate" => ret.trace[i].kind = "text") =>
        /\ Len(ret.trace) = 2 * Len(ret.plan)
        /\ \A j \in 1..Len(ret.plan) : GeneratedThenWritten(ret, j)

StageResponse(r) == r.answers[1].val

\* C21: analyze_requirement and generate_project_plan each make exactly one
\* provider call, with the stage's prompt on the facade's provider and
\* model, and parse the returned text at once: for every text that is not
\* parseable as JSON the stage fails with ValueError "Failed to parse AI
\* response as JSON" and with no other error, and for every parseable text
\* it returns the parsed value.
C21_StagesParseEagerly ==
    [][ ret'.op \in {"analyze_requirement", "generate_project_plan"} =>
          /\ Len(ret'.calls) = 1
          /\ ret'.calls[1].instance = facades[ret'.facade].provider
          /\ ret'.calls[1].model_name = facades[ret'.facade].model_name
          /\ ret'.calls[1].prompt =
                IF ret'.op = "analyze_requirement"
                THEN requirement_prompt(ret'.arg[1])
                ELSE plan_prompt(ret'.arg[1], ret'.arg[2])
          /\ ret'.answers[1].kind = "text" =>
                \E t \in JsonTexts :
                    /\ t.text = StageResponse(ret')
                    /\ IF t.json = NotJson
                       THEN /\ ret'.kind = "error"
                            /\ ret'.val = "ValueError"
                            /\ ret'.msg = "Failed to parse AI response as JSON"
                       ELSE /\ ret'.kind = "value"
                            /\ ret'.parsed = t.json ]_vars

\* generate_project_plan got a JSON object wrapped in a code fence, which
\* json.loads refuses, and failed with the parse error.
C21_Witness ==
    /\ ret.op = "generate_project_plan"
    /\ ret.answers[1].kind = "text"
    /\ StageResponse(ret) = "~~~json\n{\"files\": {}}\n~~~"
    /\ ret.kind = "error"
    /\ ret.msg = "Failed to parse AI response as JSON"


\* C22 as stated: for a file manager rooted at project_root, a relative
\* file name p and a content c, write_file(p, c) succeeds, read_file(p)
\* then returns c, and list_files() then returns what it returned before
\* together with p (so, from an empty root, exactly the names written).
C22_Original ==
    [][ ret'.op = "write_file" =>
          /\ ret'.kind = "ok"
          /\ read_file(disk', ret'.project_root, ret'.file_path)
                = [kind |-> "ok", val |-> ret'.content]
          /\ list_files(disk', ret'.project_root)
                = list_files(disk, ret'.project_root) \cup {ret'.file_path} ]_vars


\* The nodes of the sequence body and of the bodies inside them, in source
\* order.
RECURSIVE InSourceOrder(_)
InSourceOrder(body) ==
    IF body = <<>> THEN <<>>
    ELSE <<Head(body)>> \o InSourceOrder(iter_child_nodes(Head(body)))
                        \o InSourceOrder(Tail(body))

\* The modules that the import statements of nodes name.
RECURSIVE ImportedModules(_)
ImportedModules(nodes) ==
    IF nodes = <<>> THEN <<>>
    ELSE LET node == Head(nodes)
         IN  (CASE node.type = "Import" -> node.names
                [] node.type = "ImportFrom" -> <<node.module>>
                [] OTHER -> <<>>)
             \o ImportedModules(Tail(nodes))

\* C23 as stated: for a parseable source analyze_python returns as
\* 'functions' exactly the names of the def statements at module level (a
\* method of a class is not listed), as 'classes' the names of the classes
\* and as 'imports' the names of the imported modules, each in source
\* order.
C23_Original ==
    ret.op = "analyze_python" =>
        /\ ret.functions =
              NamesOf(SelectSeq(ret.tree.body, LAMBDA node : node.type = "FunctionDef"))
        /\ ret.classes =
              NamesOf(SelectSeq(InSourceOrder(ret.tree.body),
                                LAMBDA node : node.type = "ClassDef"))
        /\ ret.imports = ImportedModules(InSourceOrder(ret.tree.body))


\* C24 as stated: through each adapter, once a load-dataset request has
\* succeeded, an analyze-dataset-row request that follows it through the
\* same adapter, on a provider that can be constructed, with a row index
\* inside the loaded dataset or with none, reaches the generation calls
\* instead of failing for lack of a loaded dataset.
C24_Original ==
    [][ ( /\ ret.op = "request.load_dataset"
          /\ ret.kind = "ok"
          /\ ret'.op = "request.analyze_dataset_row"
          /\ ret'.adapter = ret.adapter
          /\ ret'.stage # "init"
          /\ ret'.row_index.given =>
                ret'.row_index.val \in 0..(ret.shape - 1) )
        => ret'.stage = "generate" ]_vars


\* C25 as stated: a feature that an add_feature invocation reported as
\* added successfully is enabled for the invocation that follows: a
\* list_features invocation lists it with its dependencies, and a
\* remove_feature invocation of it finds it enabled (it removes it, or the
\* operator declines the confirmation).
C25_Original ==
    [][ (ret.op = "invoke.add_feature" /\ ret.echo = "added") =>
          /\ ret'.op = "invoke.list_features" =>
                \E i \in 1..Len(ret'.listing) :
                    /\ ret'.listing[i].feature = ret.arg
                    /\ ret'.listing[i].dependencies = DeclaredDependencies(ret.arg)
          /\ (ret'.op = "invoke.remove_feature" /\ ret'.arg = ret.arg) =>
                ret'.echo \in {"removed", "declined"} ]_vars

====
